---- MODULE Spec2Model ----
(***************************************************************************)
(* A model of the storage-engine core of the repository: the tuple lock    *)
(* manager with wait-die (lock_manager.cpp, transaction_manager.cpp), the  *)
(* extendible hash table, the B+ tree index, the log manager and the       *)
(* recovery component.  Each subsystem has its own next-state relation and *)
(* specification over the shared tuple of variables.                       *)
(***************************************************************************)
EXTENDS Integers, Sequences, FiniteSets, TLC

(***************************************************************************)
(* Bounds of the model.                                                    *)
(***************************************************************************)
NumTxns == 3
NumRids == 2
MaxCalls == 5
MaxKey == 4
NumValues == 2
MaxBucketSize == 2
MaxHashOps == 5
LeafMaxSize == 4
InternalMaxSize == 4
MaxTreeKey == 5
NumTreeValues == 2
MaxTreeOps == 7
NumLogThreads == 2
MaxLogCalls == 3
NumEarlierTxns == 3
NumPendingTxns == 4
LOG_BUFFER_SIZE == 25
NumRecTxns == 2
NumRecPages == 2
NumSlots == 1
NumTupleValues == 2
MaxLogRecords == 5
NumHashThreads == 2
MaxConcKey == 2
MaxConcCalls == 3
NumTreeThreads == 2
MaxCrabKey == 4
MaxCrabCalls == 3
MaxLoaded == 4

VARIABLES
  \* ---- lock manager (LockManager, Transaction) ----
  strict_2PL_,         \* LockManager::strict_2PL_
  lock_map,            \* LockManager::lock_map : RID -> WaitList
  promise,             \* txn ids whose WaitItem promise has been set
  txn_state,           \* Transaction::state_ per transaction
  shared_lock_set,     \* Transaction::shared_lock_set_
  exclusive_lock_set,  \* Transaction::exclusive_lock_set_
  lk_pc,               \* where each transaction's thread stands
  lk_rid,              \* the RID of the call a thread is inside
  lk_todo,             \* Commit/Abort: RIDs still to unlock
  held,                \* mode each lock call returned true for, until Unlock returns true
  lk_calls,            \* calls of the lock manager's and transaction manager's API so far
  assert_failed,       \* an assert() of LockUpgrade failed: the process aborted
  lk_ret               \* the call that took the last step, and what it returned

lockVars == <<strict_2PL_, lock_map, promise, txn_state, shared_lock_set,
              exclusive_lock_set, lk_pc, lk_rid, lk_todo, held, lk_calls, assert_failed,
              lk_ret>>

VARIABLES
  \* ---- extendible hash table (ExtendibleHash) ----
  globalDepth,   \* ExtendibleHash::globalDepth
  numBuckets,    \* ExtendibleHash::numBuckets (slots of the directory)
  bucketSize,    \* ExtendibleHash::bucketSize
  buckets,       \* ExtendibleHash::buckets : slot -> Bucket* (an address)
  heap,          \* the Bucket objects, by address: [depth, entries]
  h_ret,         \* what the last call returned
  h_model,       \* the map the calls describe: key -> value, or NoValue
  h_ever,        \* keys ever passed to Insert
  h_distinct,    \* no key was passed to Insert twice
  h_ops,         \* Insert and Remove calls so far
  h_hung,        \* an Insert never returned
  \* ---- B+ tree (BPlusTree, buffer pool pages, IndexIterator) ----
  root_page_id_, \* BPlusTree::root_page_id_
  pages,         \* the pages of the buffer pool, by page id
  t_latch,       \* each page's reader-writer latch: readers, writer
  t_ret,         \* what the last call returned
  t_model,       \* the map the calls describe: key -> value, or NoValue
  t_ops,         \* calls of the tree so far
  t_hung,        \* a call never returned: its thread waits for a latch
  \* ---- log manager (LogManager, TransactionManager's log calls) ----
  log_buffer_,       \* the buffer records are appended to, word by word
  flush_buffer_,     \* the buffer the flush thread writes out
  log_buffer_size_,  \* words of log_buffer_ in use
  flush_buffer_size, \* words of flush_buffer_ to write
  next_lsn_,         \* LogManager::next_lsn_, atomic
  persistent_lsn_,   \* LogManager::persistent_lsn_
  latch_,            \* LogManager::latch_ is held (by the flush thread)
  f_pc,              \* where the flush thread stands in BgFSync
  l_pc,              \* where each thread stands in its call
  l_rec,             \* each thread's LogRecord
  l_offset,          \* each thread's local offset in AppendLogRecord
  l_ret,             \* where each thread's WaitTillFlushHappens returns to
  l_txn,             \* each thread's Transaction: id and prev_lsn
  next_txn_id_,      \* TransactionManager::next_txn_id_, atomic
  l_acked,           \* the last Commit or Abort that returned
  l_appended,        \* the records AppendLogRecord returned for
  log_file,          \* the words DiskManager::WriteLog wrote, in order
  log_undefined,     \* a thread read or wrote outside what is defined
  l_calls            \* Begin, Commit and Abort calls so far

VARIABLES
  \* ---- recovery (LogRecovery, the log file and the table pages) ----
  rc_pc,          \* before the crash ("run"), then where recovery stands
  rc_records,     \* the log records written before the crash, in LSN order
  rc_file,        \* the log file, word by word
  rc_txn,         \* the transactions before the crash: state, prev_lsn, write set
  rc_mem,         \* the table pages in the buffer pool before the crash
  rc_disk,        \* the table pages on disk; after the crash, as recovery has them
  offset_,        \* LogRecovery::offset_
  rc_buffer,      \* LogRecovery::log_buffer_
  log_size_read,  \* Redo: log_size_read, the offset of log in the buffer
  logRecord,      \* Redo: the LogRecord object of the outer loop
  active_txn_,    \* LogRecovery::active_txn_ : txn id -> last LSN
  lsn_mapping_,   \* LogRecovery::lsn_mapping_ : LSN -> offset in the file
  rc_hung,        \* Redo or Undo is in a loop it never leaves
  rc_undefined,   \* recovery read outside its buffer or fetched no table page
  rc_redone,      \* the LSNs of the records Redo worked on, in order
  u_todo,         \* Undo: the items of active_txn_ still to visit
  u_lsn,          \* Undo: lsn of the loop over a transaction's records
  rc_undone       \* the LSNs of the records Undo worked on, in order

recVars == <<rc_pc, rc_records, rc_file, rc_txn, rc_mem, rc_disk, offset_,
             rc_buffer, log_size_read, logRecord, active_txn_, lsn_mapping_,
             rc_hung, rc_undefined, rc_redone, u_todo, u_lsn, rc_undone>>

VARIABLES
  \* ---- the hash table called by several threads ----
  hc,             \* per thread: where it stands in its call, and its locals
  bucketsLatch,   \* ExtendibleHash::bucketsLatch: the thread holding it, or Free
  b_latch,        \* Bucket::latch of every bucket: the thread holding it, or Free
  hc_calls        \* calls made so far

concVars == <<hc, bucketsLatch, b_latch, hc_calls>>

VARIABLES
  \* ---- the B+ tree called by several threads ----
  bt,             \* per thread: where it stands in its call, and its locals
  int_mtx,        \* BPlusTree::int_mtx: the thread holding it, or Free
  bt_calls,       \* calls made so far
  bt_inserted,    \* per key: the value of the last Insert that returned true
  bt_called,      \* per key: the calls of Insert made so far
  bt_undefined    \* a thread has read a frame that is not a tree page as one

crabVars == <<bt, int_mtx, bt_calls, bt_inserted, bt_called, bt_undefined>>

hashVars == <<globalDepth, numBuckets, bucketSize, buckets, heap, h_ret,
              h_model, h_ever, h_distinct, h_ops, h_hung>>

treeVars == <<root_page_id_, pages, t_latch, t_ret, t_model, t_ops, t_hung>>

logVars == <<log_buffer_, flush_buffer_, log_buffer_size_, flush_buffer_size,
             next_lsn_, persistent_lsn_, latch_, f_pc, l_pc, l_rec, l_offset,
             l_ret, l_txn, next_txn_id_, l_acked, l_appended,
             log_file, log_undefined, l_calls>>

vars == <<lockVars, hashVars, treeVars, logVars, recVars, concVars, crabVars>>

\* what the actions of one subsystem leave alone
notLock == <<hashVars, treeVars, logVars, recVars, concVars, crabVars>>
notHash == <<lockVars, treeVars, logVars, recVars, concVars, crabVars>>
notTree == <<lockVars, hashVars, logVars, recVars, concVars, crabVars>>
notLog == <<lockVars, hashVars, treeVars, recVars, concVars, crabVars>>
notRec == <<lockVars, hashVars, treeVars, logVars, concVars, crabVars>>
notConc == <<lockVars, treeVars, logVars, recVars, crabVars>>
notCrab == <<lockVars, hashVars, logVars, recVars, concVars>>

(***************************************************************************)
(* LOCK MANAGER                                                            *)
(***************************************************************************)
Txns == 0..(NumTxns - 1)
RIDs == 1..NumRids
INVALID_TXN_ID == -1
NoRid == 0

\* WaitList(t_id, state): the constructor of a lock-table entry
WaitList(t_id, state) ==
  [lst |-> <<>>, oldest |-> t_id, state |-> state, granted |-> {t_id}]

WaitItem(txn, t_state) == [txn_id |-> txn, target_state |-> t_state]

MapPut(m, k, v) == [x \in (DOMAIN m) \cup {k} |-> IF x = k THEN v ELSE m[x]]
MapErase(m, k) == [x \in (DOMAIN m) \ {k} |-> m[x]]

Max(a, b) == IF a >= b THEN a ELSE b

\* isValidTxnState without its line 15: a SHRINKING caller is refused and
\* keeps its state
RefusedKeepsState(st) == st

\* isValidTxnState: the value returned, and the state it leaves
isValidTxnState(st) == st = "GROWING"
StateAfterValidCheck(st) == IF st = "SHRINKING" THEN "ABORTED" ELSE st

\* LockShared with line 39 testing for any entry: a shared request waits
\* behind shared holders too
SharedAlwaysWaits(wl) == TRUE

\* LockShared, line 39: the request has to wait, or to die
SharedMustWait(wl) == wl.state = "EXCLUSIVE"

\* the wait-die test of LockShared and LockExclusive
WaitDieDies(t_id, wl) == t_id > wl.oldest /\ wl.oldest # INVALID_TXN_ID

\* Unlock without its lines 125-128: strict mode refuses nothing
StrictNeverRefuses(strict, st) == FALSE

\* Unlock, lines 125-128: in strict mode only a finished transaction unlocks
StrictRefuses(strict, st) == strict /\ st \notin {"COMMITTED", "ABORTED"}

\* LockManager::Unlock(txn, rid, upgrading) as a function of the lock table and
\* the caller's state: what it returns, the table and state it leaves, and the
\* waiter whose promise it sets.
UnlockCall(lm, st, strict, t, r, upgrading) ==
  LET st1 == IF ~strict /\ st = "GROWING" /\ ~upgrading THEN "SHRINKING" ELSE st
      fail(s) == [ret |-> FALSE, lock_map |-> lm, state |-> s, woken |-> {}]
  IN IF StrictRefuses(strict, st) THEN fail(st)
     ELSE IF r \notin DOMAIN lm THEN fail(st1)
     ELSE IF t \notin lm[r].granted THEN fail(st1)
     ELSE IF lm[r].lst = <<>>
          THEN [ret |-> TRUE, lock_map |-> MapErase(lm, r), state |-> st1, woken |-> {}]
          ELSE LET next_txn == Head(lm[r].lst)
                   rest == Tail(lm[r].lst)
                   e == [lst |-> rest,
                         granted |-> (lm[r].granted \ {t}) \cup {next_txn.txn_id},
                         oldest |-> IF rest # <<>> THEN Head(rest).txn_id ELSE INVALID_TXN_ID,
                         state |-> IF rest # <<>> THEN Head(rest).target_state ELSE "INIT"]
               IN [ret |-> TRUE, lock_map |-> MapPut(lm, r, e), state |-> st1,
                   woken |-> {next_txn.txn_id}]

Running == ~assert_failed

\* the call op of transaction t on r took a step: ret is what it returned, or
\* that it waits ("blocked"), goes on ("running") or hit an assert ("assert")
Returned(op, t, r, ret) ==
  lk_ret' = [op |-> op, txn |-> t, rid |-> r, ret |-> ret]

\* a thread may start another API call; "done": its Commit or Abort returned
MayCall(t) == Running /\ lk_pc[t] \in {"idle", "done"} /\ lk_calls < MaxCalls

\* LockManager::LockShared up to its return or to the wait on the promise
LockShared(t, r) ==
  /\ MayCall(t) /\ held[t][r] = "NONE"
  /\ lk_calls' = lk_calls + 1
  /\ IF ~isValidTxnState(txn_state[t])
     THEN /\ txn_state' = [txn_state EXCEPT ![t] = StateAfterValidCheck(@)]
          /\ Returned("LockShared", t, r, "false")
          /\ UNCHANGED <<lock_map, shared_lock_set, lk_pc, lk_rid, held>>
     ELSE IF r \notin DOMAIN lock_map
     THEN /\ lock_map' = MapPut(lock_map, r, WaitList(t, "SHARED"))
          /\ shared_lock_set' = [shared_lock_set EXCEPT ![t] = @ \cup {r}]
          /\ held' = [held EXCEPT ![t][r] = "SHARED"]
          /\ Returned("LockShared", t, r, "true")
          /\ UNCHANGED <<txn_state, lk_pc, lk_rid>>
     ELSE IF SharedMustWait(lock_map[r])
     THEN IF WaitDieDies(t, lock_map[r])
          THEN /\ txn_state' = [txn_state EXCEPT ![t] = "ABORTED"]
               /\ Returned("LockShared", t, r, "false")
               /\ UNCHANGED <<lock_map, shared_lock_set, lk_pc, lk_rid, held>>
          ELSE /\ lock_map' = [lock_map EXCEPT ![r].lst = Append(@, WaitItem(t, "SHARED"))]
               /\ lk_pc' = [lk_pc EXCEPT ![t] = "wait_shared"]
               /\ lk_rid' = [lk_rid EXCEPT ![t] = r]
               /\ Returned("LockShared", t, r, "blocked")
               /\ UNCHANGED <<txn_state, shared_lock_set, held>>
     ELSE /\ lock_map' = [lock_map EXCEPT ![r].granted = @ \cup {t},
                                          ![r].oldest = Max(t, @)]
          /\ shared_lock_set' = [shared_lock_set EXCEPT ![t] = @ \cup {r}]
          /\ held' = [held EXCEPT ![t][r] = "SHARED"]
          /\ Returned("LockShared", t, r, "true")
          /\ UNCHANGED <<txn_state, lk_pc, lk_rid>>
  /\ UNCHANGED <<strict_2PL_, promise, exclusive_lock_set, lk_todo, assert_failed>>
  /\ UNCHANGED notLock

\* the body of LockExclusive up to its return or to the wait on the promise;
\* wait_pc is where the thread waits when it is enqueued, in_upgrade says that the
\* caller is LockUpgrade, which asserts the result
LockExclusiveBody(t, r, wait_pc, in_upgrade) ==
  IF ~isValidTxnState(txn_state[t])
  THEN /\ txn_state' = [txn_state EXCEPT ![t] = StateAfterValidCheck(@)]
       /\ assert_failed' = in_upgrade
       /\ Returned(IF in_upgrade THEN "LockUpgrade" ELSE "LockExclusive", t, r,
                   IF in_upgrade THEN "assert" ELSE "false")
       /\ lk_pc' = [lk_pc EXCEPT ![t] = IF in_upgrade THEN "idle" ELSE @]
       /\ lk_rid' = [lk_rid EXCEPT ![t] = NoRid]
       /\ UNCHANGED <<lock_map, exclusive_lock_set, held>>
  ELSE IF r \notin DOMAIN lock_map
  THEN /\ lock_map' = MapPut(lock_map, r, WaitList(t, "EXCLUSIVE"))
       /\ exclusive_lock_set' = [exclusive_lock_set EXCEPT ![t] = @ \cup {r}]
       /\ held' = [held EXCEPT ![t][r] = "EXCLUSIVE"]
       /\ lk_pc' = [lk_pc EXCEPT ![t] = "idle"]
       /\ lk_rid' = [lk_rid EXCEPT ![t] = NoRid]
       /\ Returned(IF in_upgrade THEN "LockUpgrade" ELSE "LockExclusive", t, r, "true")
       /\ UNCHANGED <<txn_state, assert_failed>>
  ELSE IF WaitDieDies(t, lock_map[r])
  THEN /\ txn_state' = [txn_state EXCEPT ![t] = "ABORTED"]
       /\ assert_failed' = in_upgrade
       /\ Returned(IF in_upgrade THEN "LockUpgrade" ELSE "LockExclusive", t, r,
                   IF in_upgrade THEN "assert" ELSE "false")
       /\ lk_pc' = [lk_pc EXCEPT ![t] = "idle"]
       /\ lk_rid' = [lk_rid EXCEPT ![t] = NoRid]
       /\ UNCHANGED <<lock_map, exclusive_lock_set, held>>
  ELSE /\ lock_map' = [lock_map EXCEPT ![r].lst = Append(@, WaitItem(t, "EXCLUSIVE"))]
       /\ lk_pc' = [lk_pc EXCEPT ![t] = wait_pc]
       /\ lk_rid' = [lk_rid EXCEPT ![t] = r]
       /\ Returned(IF in_upgrade THEN "LockUpgrade" ELSE "LockExclusive", t, r, "blocked")
       /\ UNCHANGED <<txn_state, exclusive_lock_set, held, assert_failed>>

\* LockManager::LockExclusive
LockExclusive(t, r) ==
  /\ MayCall(t) /\ held[t][r] = "NONE"
  /\ lk_calls' = lk_calls + 1
  /\ LockExclusiveBody(t, r, "wait_exclusive", FALSE)
  /\ UNCHANGED <<strict_2PL_, promise, shared_lock_set, lk_todo>>
  /\ UNCHANGED notLock

\* the waiter resumes after promise->get_future().get(): LockShared,
\* LockExclusive or LockUpgrade returns true
Granted(t) ==
  /\ Running /\ lk_pc[t] \in {"wait_shared", "wait_exclusive", "upgrade_wait"}
  /\ t \in promise
  /\ promise' = promise \ {t}
  /\ IF lk_pc[t] = "wait_shared"
     THEN /\ shared_lock_set' = [shared_lock_set EXCEPT ![t] = @ \cup {lk_rid[t]}]
          /\ held' = [held EXCEPT ![t][lk_rid[t]] = "SHARED"]
          /\ UNCHANGED exclusive_lock_set
     ELSE /\ exclusive_lock_set' = [exclusive_lock_set EXCEPT ![t] = @ \cup {lk_rid[t]}]
          /\ held' = [held EXCEPT ![t][lk_rid[t]] = "EXCLUSIVE"]
          /\ UNCHANGED shared_lock_set
  /\ lk_pc' = [lk_pc EXCEPT ![t] = "idle"]
  /\ lk_rid' = [lk_rid EXCEPT ![t] = NoRid]
  /\ Returned(CASE lk_pc[t] = "wait_shared" -> "LockShared"
                [] lk_pc[t] = "wait_exclusive" -> "LockExclusive"
                [] OTHER -> "LockUpgrade", t, lk_rid[t], "true")
  /\ UNCHANGED <<strict_2PL_, lock_map, txn_state, lk_todo, lk_calls, assert_failed>>
  /\ UNCHANGED notLock

\* LockManager::LockUpgrade, first critical section: the checks
LockUpgrade(t, r) ==
  /\ MayCall(t)
  /\ lk_calls' = lk_calls + 1
  /\ IF ~isValidTxnState(txn_state[t])
     THEN /\ txn_state' = [txn_state EXCEPT ![t] = StateAfterValidCheck(@)]
          /\ Returned("LockUpgrade", t, r, "false")
          /\ UNCHANGED <<lk_pc, lk_rid>>
     ELSE IF r \notin DOMAIN lock_map \/ t \notin lock_map[r].granted
     THEN /\ Returned("LockUpgrade", t, r, "false")
          /\ UNCHANGED <<txn_state, lk_pc, lk_rid>>
     ELSE /\ lk_pc' = [lk_pc EXCEPT ![t] = "upgrade_unlock"]
          /\ lk_rid' = [lk_rid EXCEPT ![t] = r]
          /\ Returned("LockUpgrade", t, r, "running")
          /\ UNCHANGED txn_state
  /\ UNCHANGED <<strict_2PL_, lock_map, promise, shared_lock_set,
                 exclusive_lock_set, lk_todo, held, assert_failed>>
  /\ UNCHANGED notLock

\* LockUpgrade: Unlock(txn, rid, true) and assert(unlock)
UpgradeUnlock(t) ==
  /\ Running /\ lk_pc[t] = "upgrade_unlock"
  /\ LET u == UnlockCall(lock_map, txn_state[t], strict_2PL_, t, lk_rid[t], TRUE)
     IN /\ lock_map' = u.lock_map
        /\ txn_state' = [txn_state EXCEPT ![t] = u.state]
        /\ promise' = promise \cup u.woken
        /\ held' = IF u.ret THEN [held EXCEPT ![t][lk_rid[t]] = "NONE"] ELSE held
        /\ assert_failed' = ~u.ret
        /\ Returned("LockUpgrade", t, lk_rid[t], IF u.ret THEN "running" ELSE "assert")
        /\ lk_pc' = [lk_pc EXCEPT ![t] = IF u.ret THEN "upgrade_lock" ELSE "idle"]
        /\ lk_rid' = [lk_rid EXCEPT ![t] = IF u.ret THEN @ ELSE NoRid]
  /\ UNCHANGED <<strict_2PL_, shared_lock_set, exclusive_lock_set, lk_todo, lk_calls>>
  /\ UNCHANGED notLock

\* LockUpgrade: LockExclusive(txn, rid) and assert(lock_ex)
UpgradeLock(t) ==
  /\ Running /\ lk_pc[t] = "upgrade_lock"
  /\ LockExclusiveBody(t, lk_rid[t], "upgrade_wait", TRUE)
  /\ UNCHANGED <<strict_2PL_, promise, shared_lock_set, lk_todo, lk_calls>>
  /\ UNCHANGED notLock

\* LockManager::Unlock(txn, rid)
Unlock(t, r) ==
  /\ MayCall(t)
  /\ lk_calls' = lk_calls + 1
  /\ LET u == UnlockCall(lock_map, txn_state[t], strict_2PL_, t, r, FALSE)
     IN /\ lock_map' = u.lock_map
        /\ txn_state' = [txn_state EXCEPT ![t] = u.state]
        /\ promise' = promise \cup u.woken
        /\ held' = IF u.ret THEN [held EXCEPT ![t][r] = "NONE"] ELSE held
        /\ Returned("Unlock", t, r, IF u.ret THEN "true" ELSE "false")
  /\ UNCHANGED <<strict_2PL_, shared_lock_set, exclusive_lock_set, lk_pc, lk_rid,
                 lk_todo, assert_failed>>
  /\ UNCHANGED notLock

\* TransactionManager::Commit / Abort with logging disabled and an empty write
\* set: the state change and the copy of the two lock sets; with nothing to
\* release the call returns at once
Finish(t, final_state) ==
  /\ MayCall(t) /\ lk_pc[t] = "idle"
  /\ lk_calls' = lk_calls + 1
  /\ txn_state' = [txn_state EXCEPT ![t] = final_state]
  /\ LET lock_set == shared_lock_set[t] \cup exclusive_lock_set[t]
     IN /\ lk_todo' = [lk_todo EXCEPT ![t] = lock_set]
        /\ lk_pc' = [lk_pc EXCEPT ![t] = IF lock_set = {} THEN "done" ELSE "releasing"]
        /\ Returned(IF final_state = "COMMITTED" THEN "Commit" ELSE "Abort", t, NoRid,
                    IF lock_set = {} THEN "returned" ELSE "running")
  /\ UNCHANGED <<strict_2PL_, lock_map, promise, shared_lock_set, exclusive_lock_set,
                 lk_rid, held, assert_failed>>
  /\ UNCHANGED notLock

\* TransactionManager::Commit
Commit(t) ==
  Finish(t, "COMMITTED")

\* TransactionManager::Abort
Abort(t) ==
  Finish(t, "ABORTED")

\* one iteration of the release loop of Commit / Abort; after the last one the
\* call returns
ReleaseOne(t) ==
  /\ Running /\ lk_pc[t] = "releasing"
  /\ \E r \in lk_todo[t] :
       LET u == UnlockCall(lock_map, txn_state[t], strict_2PL_, t, r, FALSE)
       IN /\ lock_map' = u.lock_map
          /\ txn_state' = [txn_state EXCEPT ![t] = u.state]
          /\ promise' = promise \cup u.woken
          /\ held' = IF u.ret THEN [held EXCEPT ![t][r] = "NONE"] ELSE held
          /\ lk_todo' = [lk_todo EXCEPT ![t] = @ \ {r}]
          /\ lk_pc' = [lk_pc EXCEPT ![t] = IF lk_todo[t] = {r} THEN "done" ELSE @]
          /\ Returned(IF txn_state[t] = "COMMITTED" THEN "Commit" ELSE "Abort", t, NoRid,
                      IF lk_todo[t] = {r} THEN "returned" ELSE "running")
  /\ UNCHANGED <<strict_2PL_, shared_lock_set, exclusive_lock_set, lk_rid,
                 lk_calls, assert_failed>>
  /\ UNCHANGED notLock

InitLock ==
  /\ strict_2PL_ \in BOOLEAN
  /\ lock_map = << >>
  /\ promise = {}
  /\ txn_state = [t \in Txns |-> "GROWING"]
  /\ shared_lock_set = [t \in Txns |-> {}]
  /\ exclusive_lock_set = [t \in Txns |-> {}]
  /\ lk_pc = [t \in Txns |-> "idle"]
  /\ lk_rid = [t \in Txns |-> NoRid]
  /\ lk_todo = [t \in Txns |-> {}]
  /\ held = [t \in Txns |-> [r \in RIDs |-> "NONE"]]
  /\ lk_calls = 0
  /\ assert_failed = FALSE
  /\ lk_ret = [op |-> "none", txn |-> 0, rid |-> NoRid, ret |-> "none"]

NextLock ==
  \/ \E t \in Txns, r \in RIDs : LockShared(t, r)
  \/ \E t \in Txns, r \in RIDs : LockExclusive(t, r)
  \/ \E t \in Txns, r \in RIDs : LockUpgrade(t, r)
  \/ \E t \in Txns : UpgradeUnlock(t)
  \/ \E t \in Txns : UpgradeLock(t)
  \/ \E t \in Txns : Granted(t)
  \/ \E t \in Txns, r \in RIDs : Unlock(t, r)
  \/ \E t \in Txns : Commit(t)
  \/ \E t \in Txns : Abort(t)
  \/ \E t \in Txns : ReleaseOne(t)

(***************************************************************************)
(* EXTENDIBLE HASH TABLE (extendible_hash.cpp), keys are ints              *)
(***************************************************************************)
Keys == 0..MaxKey
Values == 1..NumValues
NoValue == 0

RECURSIVE Pow2(_)
Pow2(n) == IF n = 0 THEN 1 ELSE 2 * Pow2(n - 1)

\* std::hash<int> is the identity on the keys used
HashKey(key) == key

\* h & ((1 << globalDepth) - 1)
BucketIndex(h, gd) == h % Pow2(gd)

\* (h & diffBit) != 0 for diffBit a power of two
BitSet(h, diffBit) == (h \div diffBit) % 2 = 1

Bucket == [depth |-> 1, entries |-> << >>]

\* the table as a record, for the operators below
Table == [globalDepth |-> globalDepth, numBuckets |-> numBuckets,
          buckets |-> buckets, heap |-> heap, hung |-> FALSE]

isFull(bucket) == Len(bucket.entries) > bucketSize

\* doubleBuckets without its line 41: the directory doubles, globalDepth stays
doubleBucketsKeepsDepth(T) ==
  [T EXCEPT !.buckets = [i \in 0..(2 * T.numBuckets - 1) |->
                           T.buckets[i % T.numBuckets]],
            !.numBuckets = 2 * T.numBuckets]

doubleBuckets(T) ==
  [T EXCEPT !.buckets = [i \in 0..(2 * T.numBuckets - 1) |->
                           T.buckets[i % T.numBuckets]],
            !.globalDepth = T.globalDepth + 1,
            !.numBuckets = 2 * T.numBuckets]

\* the entry with a key in a bucket's vector, first match; 0 when none
FirstIndex(entries, key) ==
  IF \E i \in 1..Len(entries) : entries[i][1] = key
  THEN CHOOSE i \in 1..Len(entries) :
         /\ entries[i][1] = key
         /\ \A j \in 1..(i - 1) : entries[j][1] # key
  ELSE 0

FindIn(T, key) ==
  LET bucket == T.heap[T.buckets[BucketIndex(HashKey(key), T.globalDepth)]]
      i == FirstIndex(bucket.entries, key)
  IN  IF i = 0 THEN [ok |-> FALSE, value |-> NoValue]
      ELSE [ok |-> TRUE, value |-> bucket.entries[i][2]]

\* one iteration of the loop of redist, fullBucket an address
RedistStep(T, key, fullBucket) ==
  LET bucketId == BucketIndex(HashKey(key), T.globalDepth)
      T1 == IF T.heap[fullBucket].depth = T.globalDepth THEN doubleBuckets(T) ELSE T
      curDepth == T.heap[fullBucket].depth
      diffBit == Pow2(curDepth)
      fresh == Len(T.heap) + 1
      old == T.heap[fullBucket].entries
      stay0 == SelectSeq(old, LAMBDA e : ~BitSet(HashKey(e[1]), diffBit))
      stay1 == SelectSeq(old, LAMBDA e : BitSet(HashKey(e[1]), diffBit))
      low == ~BitSet(bucketId, diffBit)
      b0 == IF low THEN fullBucket ELSE fresh
      b1 == IF low THEN fresh ELSE fullBucket
      heap1 == [a \in 1..fresh |->
                  IF a = b0 THEN [depth |-> curDepth + 1, entries |-> stay0]
                  ELSE IF a = b1 THEN [depth |-> curDepth + 1, entries |-> stay1]
                  ELSE T.heap[a]]
      other == (bucketId + diffBit) % T1.numBuckets
      dir1 == [i \in DOMAIN T1.buckets |->
                 IF i = other THEN (IF low THEN b1 ELSE b0)
                 ELSE IF i = bucketId THEN (IF low THEN b0 ELSE b1)
                 ELSE T1.buckets[i]]
  IN  [T1 EXCEPT !.heap = heap1, !.buckets = dir1]

\* the half redist goes on with, 0 (nullptr) when neither is full
NextFull(T, key, fullBucket) ==
  LET bucketId == BucketIndex(HashKey(key), T.globalDepth)
      low == ~BitSet(bucketId, Pow2(T.heap[fullBucket].depth))
      T2 == RedistStep(T, key, fullBucket)
      fresh == Len(T2.heap)
      b0 == IF low THEN fullBucket ELSE fresh
      b1 == IF low THEN fresh ELSE fullBucket
  IN  IF isFull(T2.heap[b0]) THEN b0
      ELSE IF isFull(T2.heap[b1]) THEN b1
      ELSE 0

\* the loop of redist cannot end: no bit at or above the bucket's depth tells
\* two of its entries apart, so every split leaves one half full and the
\* directory doubles until memory runs out
SplitsForever(T, fullBucket) ==
  LET b == T.heap[fullBucket]
  IN  \A i, j \in 1..Len(b.entries) :
        HashKey(b.entries[i][1]) \div Pow2(b.depth)
          = HashKey(b.entries[j][1]) \div Pow2(b.depth)

RECURSIVE redist(_, _, _)
redist(T, key, fullBucket) ==
  IF fullBucket = 0 THEN T
  ELSE IF SplitsForever(T, fullBucket) THEN [T EXCEPT !.hung = TRUE]
  ELSE redist(RedistStep(T, key, fullBucket), key, NextFull(T, key, fullBucket))

InsertIn(T, key, value) ==
  LET a == T.buckets[BucketIndex(HashKey(key), T.globalDepth)]
      T1 == [T EXCEPT !.heap[a].entries = Append(@, <<key, value>>)]
  IN  IF isFull(T1.heap[a]) THEN redist(T1, key, a) ELSE T1

RemoveIn(T, key) ==
  LET a == T.buckets[BucketIndex(HashKey(key), T.globalDepth)]
      vec == T.heap[a].entries
      i == FirstIndex(vec, key)
  IN  IF i = 0 THEN [ok |-> FALSE, T |-> T]
      ELSE [ok |-> TRUE,
            T |-> [T EXCEPT !.heap[a].entries =
                     SubSeq(vec, 1, i - 1) \o SubSeq(vec, i + 1, Len(vec))]]

SetTable(T) ==
  /\ globalDepth' = T.globalDepth
  /\ numBuckets' = T.numBuckets
  /\ buckets' = T.buckets
  /\ heap' = T.heap
  /\ h_hung' = T.hung

Insert(key, value) ==
  /\ ~h_hung
  /\ h_ops < MaxHashOps
  /\ SetTable(InsertIn(Table, key, value))
  /\ h_ret' = [op |-> "Insert", key |-> key, ok |-> TRUE, value |-> value]
  /\ h_model' = [h_model EXCEPT ![key] = value]
  /\ h_ever' = h_ever \cup {key}
  /\ h_distinct' = (h_distinct /\ key \notin h_ever)
  /\ h_ops' = h_ops + 1
  /\ UNCHANGED bucketSize
  /\ UNCHANGED notHash

Remove(key) ==
  /\ ~h_hung
  /\ h_ops < MaxHashOps
  /\ LET r == RemoveIn(Table, key)
     IN  /\ SetTable(r.T)
         /\ h_ret' = [op |-> "Remove", key |-> key, ok |-> r.ok, value |-> NoValue]
  /\ h_model' = [h_model EXCEPT ![key] = NoValue]
  /\ h_ops' = h_ops + 1
  /\ UNCHANGED <<bucketSize, h_ever, h_distinct>>
  /\ UNCHANGED notHash

Find(key) ==
  /\ ~h_hung
  /\ LET r == FindIn(Table, key)
     IN  h_ret' = [op |-> "Find", key |-> key, ok |-> r.ok, value |-> r.value]
  /\ UNCHANGED <<globalDepth, numBuckets, bucketSize, buckets, heap, h_model,
                 h_ever, h_distinct, h_ops, h_hung>>
  /\ UNCHANGED notHash

InitHash ==
  /\ globalDepth = 1
  /\ bucketSize \in 1..MaxBucketSize
  /\ numBuckets = 2
  /\ buckets = [i \in 0..1 |-> i + 1]
  /\ heap = <<Bucket, Bucket>>
  /\ h_ret = [op |-> "none", key |-> 0, ok |-> FALSE, value |-> NoValue]
  /\ h_model = [k \in Keys |-> NoValue]
  /\ h_ever = {}
  /\ h_distinct = TRUE
  /\ h_ops = 0
  /\ h_hung = FALSE

NextHash ==
  \/ \E key \in Keys, value \in Values : Insert(key, value)
  \/ \E key \in Keys : Remove(key)
  \/ \E key \in Keys : Find(key)

(***************************************************************************)
(* B+ TREE INDEX (b_plus_tree.cpp, b_plus_tree.h, the leaf and internal    *)
(* page classes, index_iterator.h), one thread calling the tree            *)
(***************************************************************************)
TKeys == 1..MaxTreeKey
TValues == 1..NumTreeValues
INVALID_PAGE_ID == -1

\* GetMinSize is implemented outside the files modelled: the minimum size of
\* a node is half its maximum size, rounded up
GetMinSize(page) == (page.max_size + 1) \div 2

\* slots of the array of a page: Init leaves one slot beyond max_size
ArrayCap == Max(LeafMaxSize, InternalMaxSize) + 1

Pair(k, v) == [first |-> k, second |-> v]

\* array[i] of the C++ code, i counted from 0
At(page, i) == page.array[i + 1]
SetAt(page, i, e) == [page EXCEPT !.array[i + 1] = e]

\* a frame handed out by the buffer pool for a new page: zeroed memory
ZeroPage ==
  [page_type |-> "INVALID", parent_page_id |-> 0, size |-> 0, max_size |-> 0,
   next_page_id |-> 0, array |-> [i \in 1..ArrayCap |-> Pair(0, 0)]]

Unlatched == [r |-> 0, w |-> FALSE]

\* the tree while one operation runs: root_page_id_, the pages by page id,
\* each page's reader-writer latch, the transaction's page set and deleted page
\* set, and whether the thread is blocked for ever on a latch
Tree ==
  [root |-> root_page_id_, pages |-> pages, latch |-> t_latch,
   page_set |-> << >>, deleted |-> {}, hung |-> FALSE]

\* BufferPoolManager::NewPage: the next page id, a zeroed page
NewPageId(T) == Len(T.pages) + 1
NewPage(T) ==
  [T EXCEPT !.pages = Append(@, ZeroPage), !.latch = Append(@, Unlatched)]

\* Page::RLatch, RUnlatch, WLatch, WUnlatch: a reader-writer latch that is not
\* reentrant, so a thread that asks for a latch it cannot get waits for ever
RLatch(T, pid) ==
  IF T.latch[pid].w THEN [T EXCEPT !.hung = TRUE]
  ELSE [T EXCEPT !.latch[pid].r = @ + 1]

RUnlatch(T, pid) ==
  [T EXCEPT !.latch[pid].r = IF @ > 0 THEN @ - 1 ELSE 0]

WLatch(T, pid) ==
  IF T.latch[pid].w \/ T.latch[pid].r > 0 THEN [T EXCEPT !.hung = TRUE]
  ELSE [T EXCEPT !.latch[pid].w = TRUE]

WUnlatch(T, pid) == [T EXCEPT !.latch[pid].w = FALSE]

GetPage(T, page_id, read_only, in_txn) ==
  IF T.hung THEN T
  ELSE IF read_only THEN RLatch(T, page_id)
  ELSE LET T1 == WLatch(T, page_id)
       IN  IF T1.hung \/ ~in_txn THEN T1
           ELSE [T1 EXCEPT !.page_set = Append(@, page_id)]

ReleasePage(T, page_id, read_only) ==
  IF T.hung THEN T
  ELSE IF read_only THEN RUnlatch(T, page_id)
  ELSE WUnlatch(T, page_id)

UpgradeToExclusive(T, page_id) ==
  GetPage(ReleasePage(T, page_id, TRUE), page_id, FALSE, TRUE)

\* BufferPoolManager::DeletePage: the page is gone
DeletePage(T, pid) == [T EXCEPT !.pages[pid].page_type = "INVALID"]

RECURSIVE UnlatchAll(_, _)
UnlatchAll(T, page_set) ==
  IF page_set = << >> THEN T
  ELSE UnlatchAll(WUnlatch(T, Head(page_set)), Tail(page_set))

RECURSIVE DeleteAll(_, _)
DeleteAll(T, del_page_set) ==
  IF del_page_set = {} THEN T
  ELSE LET page_id == CHOOSE p \in del_page_set : TRUE
       IN  DeleteAll(DeletePage(WUnlatch(T, page_id), page_id),
                     del_page_set \ {page_id})

ReleaseAllTxnPages(T) ==
  IF T.hung THEN T
  ELSE [DeleteAll(UnlatchAll(T, T.page_set), T.deleted)
          EXCEPT !.page_set = << >>, !.deleted = {}]

(***************************************************************************)
(* BPlusTreeLeafPage                                                       *)
(***************************************************************************)
LeafInit(page, parent_id) ==
  [page EXCEPT !.page_type = "LEAF_PAGE", !.parent_page_id = parent_id,
               !.size = 0, !.max_size = LeafMaxSize,
               !.next_page_id = INVALID_PAGE_ID]

\* the binary search of KeyIndex
RECURSIVE LeafSearch(_, _, _, _)
LeafSearch(page, key, low, high) ==
  IF low > high THEN low
  ELSE LET mid == low + (high - low) \div 2
       IN  IF At(page, mid).first = key THEN mid
           ELSE IF At(page, mid).first < key
                THEN LeafSearch(page, key, mid + 1, high)
                ELSE LeafSearch(page, key, low, mid - 1)

KeyIndex(page, key) == LeafSearch(page, key, 0, page.size - 1)

\* Lookup reads array[idx] without comparing idx with the size
LeafLookup(page, key) ==
  IF page.size = 0 THEN [ok |-> FALSE, value |-> 0]
  ELSE LET idx == KeyIndex(page, key)
       IN  IF At(page, idx).first = key
           THEN [ok |-> TRUE, value |-> At(page, idx).second]
           ELSE [ok |-> FALSE, value |-> 0]

LeafInsert(page, key, value) ==
  IF page.size = 0
  THEN [SetAt(page, 0, Pair(key, value)) EXCEPT !.size = 1]
  ELSE LET idx == KeyIndex(page, key)
       IN  IF idx < page.size /\ At(page, idx).first = key
           THEN SetAt(page, idx, Pair(key, value))
           ELSE [page EXCEPT
                   !.array = [j \in 1..ArrayCap |->
                                LET i == j - 1
                                IN  IF i = idx THEN Pair(key, value)
                                    ELSE IF i > idx /\ i <= page.size + 1
                                         THEN page.array[j - 1]
                                         ELSE page.array[j]],
                   !.size = page.size + 1]

\* MoveHalfTo: [this, recipient] afterwards
LeafMoveHalfTo(this, recipient) ==
  LET start == this.size \div 2
      targetIdx == recipient.size
      n == this.size - start
  IN  [this |-> [this EXCEPT !.size = start],
       recipient |->
         [recipient EXCEPT
            !.array = [j \in 1..ArrayCap |->
                         IF j - 1 >= targetIdx /\ j - 1 < targetIdx + n
                         THEN At(this, start + (j - 1 - targetIdx))
                         ELSE recipient.array[j]],
            !.size = recipient.size + n]]

RemoveAndDeleteRecord(page, key) ==
  IF page.size = 0 THEN page
  ELSE LET idx == KeyIndex(page, key)
       IN  IF idx < page.size /\ At(page, idx).first = key
           THEN [page EXCEPT
                   !.array = [j \in 1..ArrayCap |->
                                IF j - 1 >= idx /\ j - 1 < page.size - 1
                                THEN page.array[j + 1]
                                ELSE page.array[j]],
                   !.size = page.size - 1]
           ELSE page

(***************************************************************************)
(* BPlusTreeInternalPage                                                   *)
(***************************************************************************)
InternalInit(page, parent_id) ==
  [page EXCEPT !.page_type = "INTERNAL_PAGE", !.parent_page_id = parent_id,
               !.max_size = InternalMaxSize, !.size = 0]

\* ValueIndex: the first index holding the child, -1 when there is none
ValueIndex(page, value) ==
  IF \E i \in 0..(page.size - 1) : At(page, i).second = value
  THEN CHOOSE i \in 0..(page.size - 1) :
         /\ At(page, i).second = value
         /\ \A j \in 0..(i - 1) : At(page, j).second # value
  ELSE -1

\* the binary search of Lookup: [found, low, high, mid] when the loop ends
RECURSIVE InternalSearch(_, _, _, _)
InternalSearch(page, key, low, high) ==
  IF low > high THEN [found |-> FALSE, low |-> low, high |-> high]
  ELSE LET mid == low + (high - low) \div 2
       IN  IF At(page, mid).first = key
           THEN [found |-> TRUE, low |-> mid, high |-> mid]
           ELSE IF At(page, mid).first < key
                THEN InternalSearch(page, key, mid + 1, high)
                ELSE InternalSearch(page, key, low, mid - 1)

InternalLookup(page, key) ==
  LET s == InternalSearch(page, key, 1, page.size - 1)
  IN  IF s.found THEN At(page, s.low).second
      ELSE IF s.low >= 1 /\ s.low < page.size /\ At(page, s.low).first < key
           THEN At(page, s.low).second
           ELSE At(page, s.high).second

PopulateNewRoot(page, old_value, new_key, new_value) ==
  [page EXCEPT !.array[1] = Pair(page.array[1].first, old_value),
               !.array[2] = Pair(new_key, new_value),
               !.size = page.size + 2]

InsertNodeAfter(page, old_value, new_key, new_value) ==
  LET idx == ValueIndex(page, old_value) + 1
  IN  [page EXCEPT
         !.array = [j \in 1..ArrayCap |->
                      LET i == j - 1
                      IN  IF i = idx THEN Pair(new_key, new_value)
                          ELSE IF i > idx /\ i <= page.size
                               THEN page.array[j - 1]
                               ELSE page.array[j]],
         !.size = page.size + 1]

\* MoveHalfTo of an internal page, on the tree: the children moved get the
\* recipient as their parent
InternalMoveHalfTo(T, this_id, recipient_id) ==
  LET this == T.pages[this_id]
      recipient == T.pages[recipient_id]
      start == this.size \div 2
      targetIdx == recipient.size
      n == this.size - start
      moved == {At(this, i).second : i \in start..(this.size - 1)}
      firstOld == {At(recipient, i).second : i \in 0..(targetIdx - 1)}
  IN  [T EXCEPT !.pages = [p \in DOMAIN T.pages |->
         IF p = this_id THEN [this EXCEPT !.size = start]
         ELSE IF p = recipient_id
              THEN [recipient EXCEPT
                      !.array = [j \in 1..ArrayCap |->
                                   IF j - 1 >= targetIdx /\ j - 1 < targetIdx + n
                                   THEN At(this, start + (j - 1 - targetIdx))
                                   ELSE recipient.array[j]],
                      !.size = recipient.size + n]
         ELSE IF p \in moved \cup firstOld
              THEN [T.pages[p] EXCEPT !.parent_page_id = recipient_id]
         ELSE T.pages[p]]]

\* Remove(index) of an internal page
InternalRemove(page, index) ==
  IF index = page.size - 1 THEN [page EXCEPT !.size = page.size - 1]
  ELSE [page EXCEPT
          !.array = [j \in 1..ArrayCap |->
                       IF j - 1 >= index /\ j - 1 < page.size - 1
                       THEN page.array[j + 1]
                       ELSE page.array[j]],
          !.size = page.size - 1]

SetKeyAt(page, index, key) ==
  SetAt(page, index, Pair(key, At(page, index).second))

\* MoveAllTo, leaf and internal: the recipient gets the pairs at its end; a
\* leaf also hands over its next_page_id
MoveAllTo(this, recipient) ==
  LET r_idx == recipient.size
      r1 == [recipient EXCEPT
               !.array = [j \in 1..ArrayCap |->
                            IF j - 1 >= r_idx /\ j - 1 < r_idx + this.size
                            THEN At(this, j - 1 - r_idx)
                            ELSE recipient.array[j]],
               !.size = recipient.size + this.size]
  IN  IF this.page_type = "LEAF_PAGE"
      THEN [r1 EXCEPT !.next_page_id = this.next_page_id]
      ELSE r1

\* shift of the recipient by one slot to the right, array[i] = array[i - 1]
\* for i = size down to 1
ShiftRight(page) ==
  [page EXCEPT !.array = [j \in 1..ArrayCap |->
                            IF j - 1 >= 1 /\ j - 1 <= page.size
                            THEN page.array[j - 1] ELSE page.array[j]]]

\* shift of a leaf by one slot to the left, array[i] = array[i + 1] for
\* i = 0 .. size - 2
ShiftLeft(page) ==
  [page EXCEPT !.array = [j \in 1..ArrayCap |->
                            IF j - 1 < page.size - 1
                            THEN page.array[j + 1] ELSE page.array[j]]]

\* BPlusTreeLeafPage::MoveFirstToEndOf, on the tree
LeafMoveFirstToEndOf(T, this_id, recipient_id) ==
  LET this == T.pages[this_id]
      recipient == T.pages[recipient_id]
      parent_id == this.parent_page_id
      index_in_parent == ValueIndex(T.pages[parent_id], this_id)
      r1 == [SetAt(recipient, recipient.size, At(this, 0))
               EXCEPT !.size = recipient.size + 1]
      t1 == [ShiftLeft(this) EXCEPT !.size = this.size - 1]
  IN  [T EXCEPT !.pages[recipient_id] = r1,
                !.pages[this_id] = t1,
                !.pages[parent_id] =
                   SetKeyAt(@, index_in_parent, At(t1, 0).first)]

\* BPlusTreeLeafPage::MoveLastToFrontOf, on the tree: the parent's key of the
\* recipient becomes array[0].first of the page that gives
LeafMoveLastToFrontOf(T, this_id, recipient_id) ==
  LET this == T.pages[this_id]
      recipient == T.pages[recipient_id]
      parent_id == this.parent_page_id
      index_in_parent == ValueIndex(T.pages[parent_id], recipient_id)
      r1 == [SetAt(ShiftRight(recipient), 0, At(this, this.size - 1))
               EXCEPT !.size = recipient.size + 1]
      t1 == [this EXCEPT !.size = this.size - 1]
  IN  [T EXCEPT !.pages[recipient_id] = r1,
                !.pages[this_id] = t1,
                !.pages[parent_id] =
                   SetKeyAt(@, index_in_parent, At(t1, 0).first)]

\* BPlusTreeInternalPage::MoveFirstToEndOf, on the tree
InternalMoveFirstToEndOf(T, this_id, recipient_id) ==
  LET this == T.pages[this_id]
      recipient == T.pages[recipient_id]
      parent_id == this.parent_page_id
      index_in_parent == ValueIndex(T.pages[parent_id], this_id)
      key == At(T.pages[parent_id], index_in_parent).first
      r1 == [SetAt(recipient, recipient.size, Pair(key, At(this, 0).second))
               EXCEPT !.size = recipient.size + 1]
      t1 == InternalRemove(this, 0)
  IN  [T EXCEPT !.pages[recipient_id] = r1,
                !.pages[this_id] = t1,
                !.pages[parent_id] =
                   SetKeyAt(@, index_in_parent, At(t1, 0).first)]

\* BPlusTreeInternalPage::MoveLastToFrontOf, on the tree
InternalMoveLastToFrontOf(T, this_id, recipient_id) ==
  LET this == T.pages[this_id]
      recipient == T.pages[recipient_id]
      parent_id == this.parent_page_id
      index_in_parent == ValueIndex(T.pages[parent_id], this_id)
      current_parent_key == At(T.pages[parent_id], index_in_parent).first
      r0 == ShiftRight(recipient)
      r1 == SetAt(r0, 1, Pair(current_parent_key, At(r0, 1).second))
      r2 == SetAt(r1, 0, Pair(At(r1, 0).first, At(this, this.size - 1).second))
  IN  [T EXCEPT !.pages[recipient_id] = r2,
                !.pages[this_id] = InternalRemove(this, this.size - 1),
                !.pages[parent_id] =
                   SetKeyAt(@, index_in_parent, At(this, this.size - 1).first)]

(***************************************************************************)
(* BPlusTree.  An operation is a chain of operators, each taking the tree  *)
(* the step before it left; a step that finds the thread blocked on a      *)
(* latch (hung) hands the tree on as it is.                                *)
(***************************************************************************)
IsEmpty(T) == T.root = INVALID_PAGE_ID

\* the loop of GetLeafPage, mPage latched: [T, leaf]
RECURSIVE Descend(_, _, _, _)
Descend(T, mPage, key, read_only) ==
  IF T.hung \/ T.pages[mPage].page_type # "INTERNAL_PAGE"
  THEN [T |-> T, leaf |-> mPage]
  ELSE Descend(GetPage(IF read_only THEN ReleasePage(T, mPage, TRUE) ELSE T,
                       InternalLookup(T.pages[mPage], key), read_only, TRUE),
               InternalLookup(T.pages[mPage], key), key, read_only)

GetLeafPage(T, key, read_only) ==
  Descend(GetPage(T, T.root, read_only, TRUE), T.root, key, read_only)

\* GetValue, lines 49-54, d what GetLeafPage returned
GetValueAtLeaf(d, key) ==
  IF d.T.hung THEN [T |-> d.T, ok |-> FALSE, value |-> 0]
  ELSE [T |-> ReleasePage(d.T, d.leaf, TRUE),
        ok |-> LeafLookup(d.T.pages[d.leaf], key).ok,
        value |-> LeafLookup(d.T.pages[d.leaf], key).value]

\* GetValue: [T, ok, value]
GetValueIn(T, key) ==
  IF IsEmpty(T) THEN [T |-> T, ok |-> FALSE, value |-> 0]
  ELSE GetValueAtLeaf(GetLeafPage(T, key, TRUE), key)

\* InsertIntoParent, lines 207-226: the split was of the root; T has the
\* frame of the new root
NewRoot(T, new_page_id, old_node, key, new_node) ==
  [T EXCEPT
     !.pages[new_page_id] =
        PopulateNewRoot(InternalInit(@, INVALID_PAGE_ID), old_node, key, new_node),
     !.pages[old_node].parent_page_id = new_page_id,
     !.pages[new_node].parent_page_id = new_page_id,
     !.root = new_page_id]

\* Split of an internal page: the new page page_id takes the upper half
SplitInternal(T, node, page_id) ==
  InternalMoveHalfTo(
    [NewPage(T) EXCEPT !.pages[page_id] =
                          InternalInit(@, T.pages[node].parent_page_id)],
    node, page_id)

RECURSIVE InsertIntoParent(_, _, _, _)

\* InsertIntoParent(old_node, new_node->KeyAt(0), new_node)
PushUp(T, old_node, new_node) ==
  InsertIntoParent(T, old_node, At(T.pages[new_node], 0).first, new_node)

\* InsertIntoParent, lines 240-250, T after InsertNodeAfter on the parent
AfterInsertNode(T, parent_page_id) ==
  IF T.pages[parent_page_id].size = T.pages[parent_page_id].max_size
  THEN PushUp(SplitInternal(T, parent_page_id, NewPageId(T)),
              parent_page_id, NewPageId(T))
  ELSE T

InsertIntoParent(T, old_node, key, new_node) ==
  IF T.pages[old_node].parent_page_id = INVALID_PAGE_ID
  THEN NewRoot(NewPage(T), NewPageId(T), old_node, key, new_node)
  ELSE AfterInsertNode(
         [T EXCEPT !.pages[T.pages[old_node].parent_page_id] =
                      InsertNodeAfter(@, old_node, key, new_node)],
         T.pages[old_node].parent_page_id)

\* Split of a leaf and InsertIntoLeaf lines 153-155: the new page page_id
\* takes the upper half and follows the leaf in the chain
SplitLeaf(T, node, page_id) ==
  LET halves == LeafMoveHalfTo(T.pages[node],
                               LeafInit(ZeroPage, T.pages[node].parent_page_id))
  IN  [NewPage(T) EXCEPT
         !.pages[page_id] =
            [halves.recipient EXCEPT
               !.next_page_id = T.pages[node].next_page_id],
         !.pages[node] = [halves.this EXCEPT !.next_page_id = page_id]]

InsertAt(T, leaf, key, value) ==
  [T EXCEPT !.pages[leaf] = LeafInsert(@, key, value)]

\* InsertIntoLeaf, lines 148-162, d the leaf latched with its whole path
SplitInsert(d, key, value) ==
  IF d.T.hung THEN [T |-> d.T, ret |-> FALSE]
  ELSE [T |-> ReleaseAllTxnPages(
                PushUp(SplitLeaf(InsertAt(d.T, d.leaf, key, value),
                                 d.leaf, NewPageId(d.T)),
                       d.leaf, NewPageId(d.T))),
        ret |-> TRUE]

\* InsertIntoLeaf, lines 135-162, T with the leaf latched exclusively
InsertUpgraded(T, leaf, key, value) ==
  IF T.hung THEN [T |-> T, ret |-> FALSE]
  ELSE IF T.pages[leaf].size + 1 < T.pages[leaf].max_size
  THEN [T |-> ReleaseAllTxnPages(InsertAt(T, leaf, key, value)), ret |-> TRUE]
  ELSE SplitInsert(GetLeafPage(ReleasePage(T, leaf, FALSE), key, FALSE),
                   key, value)

\* InsertIntoLeaf, lines 128-162, d what GetLeafPage returned
InsertAtLeaf(d, key, value) ==
  IF d.T.hung THEN [T |-> d.T, ret |-> FALSE]
  ELSE IF LeafLookup(d.T.pages[d.leaf], key).ok
  THEN [T |-> ReleasePage(d.T, d.leaf, TRUE), ret |-> FALSE]
  ELSE InsertUpgraded(UpgradeToExclusive(d.T, d.leaf), d.leaf, key, value)

\* InsertIntoLeaf: [T, ret]
InsertIntoLeaf(T, key, value) ==
  InsertAtLeaf(GetLeafPage(T, key, TRUE), key, value)

\* StartNewTree, lines 87-98, T with the frame of the new page
NewTree(T, page_id) ==
  [T EXCEPT !.pages[page_id] = LeafInit(@, INVALID_PAGE_ID), !.root = page_id]

StartNewTree(T, key, value) ==
  [T |-> InsertIntoLeaf(NewTree(NewPage(T), NewPageId(T)), key, value).T,
   ret |-> TRUE]

\* Insert: [T, ret]
InsertInTree(T, key, value) ==
  IF IsEmpty(T) THEN StartNewTree(T, key, value)
  ELSE InsertIntoLeaf(T, key, value)

\* AdjustRoot, lines 519-528, T with the only child latched (outside the
\* transaction's page set)
PromoteChild(T, child_page_id) ==
  IF T.hung THEN [T |-> T, del |-> FALSE]
  ELSE [T |-> [T EXCEPT !.root = child_page_id,
                        !.pages[child_page_id].parent_page_id = INVALID_PAGE_ID],
        del |-> TRUE]

\* AdjustRoot: [T, del]
AdjustRoot(T, old_root_node) ==
  IF T.pages[old_root_node].page_type = "LEAF_PAGE"
     /\ T.pages[old_root_node].size = 0
  THEN [T |-> T, del |-> TRUE]
  ELSE IF T.pages[old_root_node].page_type # "LEAF_PAGE"
          /\ T.pages[old_root_node].size = 1
  THEN PromoteChild(GetPage(T, At(T.pages[old_root_node], 0).second, FALSE, FALSE),
                    At(T.pages[old_root_node], 0).second)
  ELSE [T |-> T, del |-> FALSE]

Redistribute(T, neighbor_node, node, index) ==
  IF T.pages[node].page_type = "LEAF_PAGE"
  THEN IF index = 0 THEN LeafMoveFirstToEndOf(T, neighbor_node, node)
       ELSE LeafMoveLastToFrontOf(T, neighbor_node, node)
  ELSE IF index = 0 THEN InternalMoveFirstToEndOf(T, neighbor_node, node)
       ELSE InternalMoveLastToFrontOf(T, neighbor_node, node)

\* parent->Remove(parent->ValueIndex(child))
RemoveFromParent(T, parent, child) ==
  [T EXCEPT !.pages[parent] = InternalRemove(@, ValueIndex(@, child))]

\* Coalesce: the tree afterwards
Coalesce(T, neighbor_node, node, parent, index) ==
  IF index = 1
  THEN RemoveFromParent(
         [T EXCEPT !.pages[neighbor_node] = MoveAllTo(T.pages[node], @)],
         parent, node)
  ELSE RemoveFromParent(
         [T EXCEPT !.pages[node] = MoveAllTo(T.pages[neighbor_node], @)],
         parent, neighbor_node)

\* CoalesceOrRedistribute, lines 328-345 and 358-359: the parent of the node,
\* the node's index in it and the siblings there are
Siblings(T, node) ==
  LET parent_page_id == T.pages[node].parent_page_id
      parent_page == T.pages[parent_page_id]
      idx == ValueIndex(parent_page, node)
  IN  [node |-> node, parent |-> parent_page_id,
       hasLeft |-> idx - 1 >= 0,
       left |-> IF idx - 1 >= 0 THEN At(parent_page, idx - 1).second
                ELSE INVALID_PAGE_ID,
       hasRight |-> idx + 1 < parent_page.size,
       right |-> IF idx + 1 < parent_page.size
                 THEN At(parent_page, idx + 1).second ELSE INVALID_PAGE_ID]

RECURSIVE CoalesceOrRedistribute(_, _)

\* lines 417-423, up what CoalesceOrRedistribute(parent) returned
ParentDone(up, s, node_delete) ==
  IF up.T.hung THEN [T |-> up.T, del |-> FALSE]
  ELSE [T |-> IF up.del THEN DeletePage(up.T, s.parent) ELSE up.T,
        del |-> node_delete]

\* line 416
Upward(T, s, node_delete) ==
  ParentDone(CoalesceOrRedistribute(T, s.parent), s, node_delete)

\* lines 405-413, T with the right sibling latched a second time
MergeRightLatched(T, s) ==
  IF T.hung THEN [T |-> T, del |-> FALSE]
  ELSE IF T.pages[s.right].size + T.pages[s.node].size
            < T.pages[s.node].max_size
  THEN Upward(DeletePage(Coalesce(T, s.right, s.node, s.parent, 0), s.right),
              s, FALSE)
  ELSE Upward(T, s, FALSE)

\* lines 402-414
MergeRight(T, s, node_delete) ==
  IF ~node_delete /\ s.hasRight
  THEN MergeRightLatched(GetPage(T, s.right, FALSE, TRUE), s)
  ELSE Upward(T, s, node_delete)

\* lines 388-395, T with the left sibling latched a second time
MergeLeftLatched(T, s) ==
  IF T.hung THEN [T |-> T, del |-> FALSE]
  ELSE IF T.pages[s.left].size + T.pages[s.node].size
            < T.pages[s.node].max_size
  THEN MergeRight(Coalesce(T, s.left, s.node, s.parent, 1), s, TRUE)
  ELSE MergeRight(T, s, FALSE)

\* lines 383-396
MergeLeft(T, s) ==
  IF s.hasLeft THEN MergeLeftLatched(GetPage(T, s.left, FALSE, TRUE), s)
  ELSE MergeRight(T, s, FALSE)

\* lines 361-367, T with the right sibling latched
LendRightLatched(T, s) ==
  IF T.hung THEN [T |-> T, del |-> FALSE]
  ELSE IF T.pages[s.right].size > GetMinSize(T.pages[s.node])
  THEN [T |-> Redistribute(T, s.right, s.node, 0), del |-> FALSE]
  ELSE MergeLeft(T, s)

\* lines 358-368
LendRight(T, s) ==
  IF s.hasRight THEN LendRightLatched(GetPage(T, s.right, FALSE, TRUE), s)
  ELSE MergeLeft(T, s)

\* lines 347-354, T with the left sibling latched
LendLeftLatched(T, s) ==
  IF T.hung THEN [T |-> T, del |-> FALSE]
  ELSE IF T.pages[s.left].size > GetMinSize(T.pages[s.left])
  THEN [T |-> Redistribute(T, s.left, s.node, 1), del |-> FALSE]
  ELSE LendRight(T, s)

\* lines 344-355
LendLeft(T, s) ==
  IF s.hasLeft THEN LendLeftLatched(GetPage(T, s.left, FALSE, TRUE), s)
  ELSE LendRight(T, s)

\* CoalesceOrRedistribute: [T, del]
CoalesceOrRedistribute(T, node) ==
  IF T.hung \/ T.pages[node].size >= GetMinSize(T.pages[node])
  THEN [T |-> T, del |-> FALSE]
  ELSE IF T.pages[node].parent_page_id = INVALID_PAGE_ID
  THEN AdjustRoot(T, node)
  ELSE LendLeft(T, Siblings(T, node))

\* Remove, lines 297-310, T what CoalesceOrRedistribute left
MarkDeleted(T, target_page_id) ==
  [T EXCEPT !.deleted = @ \cup {target_page_id},
            !.root = IF target_page_id = T.root THEN INVALID_PAGE_ID ELSE @]

\* Remove, lines 297-311, c what CoalesceOrRedistribute returned
AfterCoalesce(c, target_leaf) ==
  IF c.T.hung THEN c.T
  ELSE ReleaseAllTxnPages(IF c.del THEN MarkDeleted(c.T, target_leaf) ELSE c.T)

\* Remove, lines 293-311, d the leaf latched with its whole path
RemoveWithMerge(d, key) ==
  IF d.T.hung THEN d.T
  ELSE AfterCoalesce(
         CoalesceOrRedistribute(
           [d.T EXCEPT !.pages[d.leaf] = RemoveAndDeleteRecord(@, key)], d.leaf),
         d.leaf)

\* Remove, lines 280-311, T with the leaf latched exclusively
RemoveUpgraded(T, leaf, key, size_after) ==
  IF T.hung THEN T
  ELSE IF size_after > GetMinSize(T.pages[leaf])
  THEN ReleaseAllTxnPages(
         [T EXCEPT !.pages[leaf] = RemoveAndDeleteRecord(@, key)])
  ELSE RemoveWithMerge(GetLeafPage(ReleasePage(T, leaf, FALSE), key, FALSE), key)

\* Remove, lines 269-311, d what GetLeafPage returned
RemoveAtLeaf(d, key) ==
  IF d.T.hung THEN d.T
  ELSE IF ~LeafLookup(d.T.pages[d.leaf], key).ok
  THEN ReleasePage(d.T, d.leaf, TRUE)
  ELSE RemoveUpgraded(UpgradeToExclusive(d.T, d.leaf), d.leaf, key,
                      d.T.pages[d.leaf].size - 1)

\* Remove: the tree afterwards
RemoveInTree(T, key) ==
  IF IsEmpty(T) THEN T
  ELSE RemoveAtLeaf(GetLeafPage(T, key, TRUE), key)

(***************************************************************************)
(* IndexIterator                                                           *)
(***************************************************************************)
\* the loop of Begin(), cur_page latched: the read latches stay, the pages are
\* only unpinned
RECURSIVE Leftmost(_, _)
Leftmost(T, cur_page) ==
  IF T.hung \/ T.pages[cur_page].page_type # "INTERNAL_PAGE"
  THEN [T |-> T, leaf |-> cur_page]
  ELSE Leftmost(GetPage(T, At(T.pages[cur_page], 0).second, TRUE, FALSE),
                At(T.pages[cur_page], 0).second)

\* the iterator Begin() constructs, d what the descent returned: [T, it]
IteratorAt(d) ==
  [T |-> d.T,
   it |-> [cur_page_id |-> d.leaf, cur_idx |-> 0, no_more_records |-> FALSE]]

\* Begin(): [T, it]
BeginIn(T) == IteratorAt(Leftmost(GetPage(T, T.root, TRUE, FALSE), T.root))

\* the iterator Begin(key) constructs, lines 590-594, d what GetLeafPage
\* returned: [T, it]
IteratorAtKey(d, key) ==
  [T |-> d.T,
   it |-> [cur_page_id |-> d.leaf,
           cur_idx |-> IF d.T.hung THEN 0 ELSE KeyIndex(d.T.pages[d.leaf], key),
           no_more_records |-> FALSE]]

\* Begin(key): [T, it]
BeginAtKey(T, key) == IteratorAtKey(GetLeafPage(T, key, TRUE), key)

isEnd(it) == it.no_more_records

\* operator*
Deref(T, it) == At(T.pages[it.cur_page_id], it.cur_idx)

\* operator++
Advance(T, it) ==
  IF it.cur_idx + 1 >= T.pages[it.cur_page_id].size
  THEN IF T.pages[it.cur_page_id].next_page_id = INVALID_PAGE_ID
       THEN [it EXCEPT !.cur_idx = it.cur_idx + 1, !.no_more_records = TRUE]
       ELSE [it EXCEPT !.cur_page_id = T.pages[it.cur_page_id].next_page_id,
                       !.cur_idx = 0]
  ELSE [it EXCEPT !.cur_idx = it.cur_idx + 1]

\* for (it = Begin(); !it.isEnd(); ++it) visited.push_back(*it)
RECURSIVE ScanFrom(_, _, _)
ScanFrom(T, it, visited) ==
  IF isEnd(it) THEN visited
  ELSE ScanFrom(T, Advance(T, it), Append(visited, Deref(T, it)))

(***************************************************************************)
(* The calls of the tree as actions                                        *)
(***************************************************************************)
SetTree(T) ==
  /\ root_page_id_' = T.root
  /\ pages' = T.pages
  /\ t_latch' = T.latch
  /\ t_hung' = T.hung

\* what a call returned, and whether its key was in the map when it was made
Ret(op, key, ok, value, scan, hung) ==
  IF hung
  THEN [op |-> "blocked", call |-> op, key |-> key, ok |-> FALSE,
        value |-> NoValue,
        present |-> (key \in TKeys /\ t_model[key] # NoValue), scan |-> << >>]
  ELSE [op |-> op, call |-> op, key |-> key, ok |-> ok, value |-> value,
        present |-> (key \in TKeys /\ t_model[key] # NoValue), scan |-> scan]

MayCallTree == ~t_hung /\ t_ops < MaxTreeOps

InsertReturns(r, key, value) ==
  /\ SetTree(r.T)
  /\ t_ret' = Ret("Insert", key, r.ret, NoValue, << >>, r.T.hung)
  /\ t_model' = IF r.ret /\ ~r.T.hung
                THEN [t_model EXCEPT ![key] = value] ELSE t_model

TreeInsert(key, value) ==
  /\ MayCallTree
  /\ InsertReturns(InsertInTree(Tree, key, value), key, value)
  /\ t_ops' = t_ops + 1
  /\ UNCHANGED notTree

RemoveReturns(T, key) ==
  /\ SetTree(T)
  /\ t_ret' = Ret("Remove", key, TRUE, NoValue, << >>, T.hung)
  /\ t_model' = IF T.hung THEN t_model ELSE [t_model EXCEPT ![key] = NoValue]

TreeRemove(key) ==
  /\ MayCallTree
  /\ RemoveReturns(RemoveInTree(Tree, key), key)
  /\ t_ops' = t_ops + 1
  /\ UNCHANGED notTree

GetValueReturns(r, key) ==
  /\ SetTree(r.T)
  /\ t_ret' = Ret("GetValue", key, r.ok, r.value, << >>, r.T.hung)

GetValue(key) ==
  /\ MayCallTree
  /\ GetValueReturns(GetValueIn(Tree, key), key)
  /\ t_ops' = t_ops + 1
  /\ UNCHANGED <<t_model, notTree>>

ScanReturns(b) ==
  /\ SetTree(b.T)
  /\ t_ret' = Ret("Scan", 0, TRUE, NoValue,
                  IF b.T.hung THEN << >> ELSE ScanFrom(b.T, b.it, << >>),
                  b.T.hung)

\* a full scan: Begin(), then * and ++ until isEnd(), no call in between
Scan ==
  /\ MayCallTree
  /\ root_page_id_ # INVALID_PAGE_ID
  /\ ScanReturns(BeginIn(Tree))
  /\ t_ops' = t_ops + 1
  /\ UNCHANGED <<t_model, notTree>>

InitTree ==
  /\ root_page_id_ = INVALID_PAGE_ID
  /\ pages = << >>
  /\ t_latch = << >>
  /\ t_ret = [op |-> "none", call |-> "none", key |-> 0, ok |-> FALSE,
              value |-> NoValue, present |-> FALSE, scan |-> << >>]
  /\ t_model = [k \in TKeys |-> NoValue]
  /\ t_ops = 0
  /\ t_hung = FALSE

NextTree ==
  \/ \E key \in TKeys, value \in TValues : TreeInsert(key, value)
  \/ \E key \in TKeys : TreeRemove(key)
  \/ \E key \in TKeys : GetValue(key)
  \/ Scan

(***************************************************************************)
(* LOG MANAGER (log_manager.cpp) and the log calls of the transaction      *)
(* manager (transaction_manager.cpp).  Sizes and offsets count words of    *)
(* four bytes.  The appenders and the flush thread take one step per       *)
(* statement that reads or writes a shared variable.                       *)
(***************************************************************************)
LogThreads == 1..NumLogThreads
INVALID_LSN == -1

\* LogRecord::HEADER_SIZE, 20 bytes: size, lsn, txn_id, prev_lsn, type
HEADER_SIZE == 5

\* a word of a buffer that nothing has written yet
Uninitialized == -2

\* enum class LogRecordType
TypeCode(type) ==
  CASE type = "INVALID" -> 0
    [] type = "INSERT" -> 1
    [] type = "MARKDELETE" -> 2
    [] type = "APPLYDELETE" -> 3
    [] type = "ROLLBACKDELETE" -> 4
    [] type = "UPDATE" -> 5
    [] type = "BEGIN" -> 6
    [] type = "COMMIT" -> 7
    [] type = "ABORT" -> 8
    [] type = "NEWPAGE" -> 9

\* RID(): no page
NoRID == [page_id |-> INVALID_PAGE_ID, slot_num |-> 0]

\* a LogRecord object as its constructor without arguments leaves it
EmptyLogRecord ==
  [size_ |-> 0, lsn_ |-> INVALID_LSN, txn_id_ |-> INVALID_TXN_ID,
   prev_lsn_ |-> INVALID_LSN, log_record_type_ |-> "INVALID",
   insert_rid_ |-> NoRID, insert_tuple_ |-> << >>,
   delete_rid_ |-> NoRID, delete_tuple_ |-> << >>,
   update_rid_ |-> NoRID, old_tuple_ |-> << >>, new_tuple_ |-> << >>,
   prev_page_id_ |-> INVALID_PAGE_ID]

\* LogRecord(txn_id, prev_lsn, type) of BEGIN, COMMIT and ABORT
HeaderRecord(txn_id, prev_lsn, type) ==
  [EmptyLogRecord EXCEPT !.size_ = HEADER_SIZE, !.txn_id_ = txn_id,
                         !.prev_lsn_ = prev_lsn, !.log_record_type_ = type]

\* Tuple::SerializeTo: the length, then the data
SerializeTuple(tuple) == <<Len(tuple)>> \o tuple

SerializeRID(rid) == <<rid.page_id, rid.slot_num>>

\* AppendLogRecord, lines 131-154: the words memcpy and SerializeTo write
Serialize(log_record) ==
  <<log_record.size_, log_record.lsn_, log_record.txn_id_,
    log_record.prev_lsn_, TypeCode(log_record.log_record_type_)>> \o
  (CASE log_record.log_record_type_ = "INSERT" ->
          SerializeRID(log_record.insert_rid_)
            \o SerializeTuple(log_record.insert_tuple_)
     [] log_record.log_record_type_
          \in {"APPLYDELETE", "MARKDELETE", "ROLLBACKDELETE"} ->
          SerializeRID(log_record.delete_rid_)
            \o SerializeTuple(log_record.delete_tuple_)
     [] log_record.log_record_type_ = "UPDATE" ->
          SerializeRID(log_record.update_rid_)
            \o SerializeTuple(log_record.old_tuple_)
            \o SerializeTuple(log_record.new_tuple_)
     [] log_record.log_record_type_ = "NEWPAGE" ->
          <<log_record.prev_page_id_>>
     [] OTHER -> << >>)

\* memcpy(buf + offset, words)
CopyInto(buf, offset, words) ==
  [i \in DOMAIN buf |->
     IF i - 1 >= offset /\ i - 1 < offset + Len(words)
     THEN words[i - offset] ELSE buf[i]]

\* LastLsn: the loop, ptr and lsn as they stand
RECURSIVE LastLsnFrom(_, _, _, _)
LastLsnFrom(buf, size, ptr, lsn) ==
  IF ptr >= size THEN lsn
  ELSE LastLsnFrom(buf, size, ptr + buf[ptr + 1], buf[ptr + 2])

LastLsn(buf, size) == LastLsnFrom(buf, size, 0, INVALID_LSN)

\* the process is in a defined state
LogRunning == ~log_undefined

\* AppendLogRecord, lines 118-122, for the record the caller built: the check
\* for a full buffer; the flush thread's wait on cv_ has a timeout, so
\* WakeUpFlushThread changes nothing
AppendCheck(t, log_record) ==
  /\ l_rec' = [l_rec EXCEPT ![t] = log_record]
  /\ IF log_record.size_ + log_buffer_size_ > LOG_BUFFER_SIZE
     THEN /\ l_pc' = [l_pc EXCEPT ![t] = "enter_wait"]
          /\ l_ret' = [l_ret EXCEPT ![t] = "assign"]
     ELSE /\ l_pc' = [l_pc EXCEPT ![t] = "assign"]
          /\ UNCHANGED l_ret

\* TransactionManager::Begin, lines 12-16, into AppendLogRecord
LogBegin(t) ==
  /\ LogRunning
  /\ l_pc[t] = "idle"
  /\ l_calls < MaxLogCalls
  /\ l_txn' = [l_txn EXCEPT ![t] = [id |-> next_txn_id_, prev_lsn |-> INVALID_LSN]]
  /\ next_txn_id_' = next_txn_id_ + 1
  /\ AppendCheck(t, HeaderRecord(next_txn_id_, INVALID_LSN, "BEGIN"))
  /\ l_calls' = l_calls + 1
  /\ UNCHANGED <<log_buffer_, flush_buffer_, log_buffer_size_, flush_buffer_size,
                 next_lsn_, persistent_lsn_, latch_, f_pc, l_offset,
                 l_acked, l_appended, log_file, log_undefined>>
  /\ UNCHANGED notLog

\* TransactionManager::Commit and Abort, lines 38-40 and 78-80, into
\* AppendLogRecord
LogEnd(t, type) ==
  /\ LogRunning
  /\ l_pc[t] = "active"
  /\ l_calls < MaxLogCalls
  /\ AppendCheck(t, HeaderRecord(l_txn[t].id, l_txn[t].prev_lsn, type))
  /\ l_calls' = l_calls + 1
  /\ UNCHANGED <<log_buffer_, flush_buffer_, log_buffer_size_, flush_buffer_size,
                 next_lsn_, persistent_lsn_, latch_, f_pc, l_offset,
                 l_acked, l_appended, log_file, log_undefined,
                 l_txn, next_txn_id_>>
  /\ UNCHANGED notLog

LogCommit(t) == LogEnd(t, "COMMIT")

LogAbort(t) == LogEnd(t, "ABORT")

\* WaitTillFlushHappens, lines 89-91: lock the latch, wait on flushed_
WaitEnter(t) ==
  /\ LogRunning
  /\ l_pc[t] = "enter_wait"
  /\ ~latch_
  /\ l_pc' = [l_pc EXCEPT ![t] = "waiting"]
  /\ UNCHANGED <<log_buffer_, flush_buffer_, log_buffer_size_, flush_buffer_size,
                 next_lsn_, persistent_lsn_, latch_, f_pc, l_rec, l_offset, l_ret,
                 l_acked, l_appended, log_file, log_undefined,
                 l_txn, next_txn_id_, l_calls>>
  /\ UNCHANGED notLog

\* WaitTillFlushHappens, lines 91-93, notified: the loop test and the return,
\* into AppendLogRecord or out of Commit or Abort (lines 42 and 82)
WaitReturn(t) ==
  /\ LogRunning
  /\ l_pc[t] = "notified"
  /\ ~latch_
  /\ IF flush_buffer_size # 0
     THEN /\ l_pc' = [l_pc EXCEPT ![t] = "waiting"]
          /\ UNCHANGED <<l_acked, l_txn, l_rec>>
     ELSE IF l_ret[t] = "assign"
     THEN /\ l_pc' = [l_pc EXCEPT ![t] = "assign"]
          /\ UNCHANGED <<l_acked, l_txn, l_rec>>
     ELSE /\ l_pc' = [l_pc EXCEPT ![t] = "idle"]
          /\ l_acked' = [acked |-> TRUE, lsn |-> l_rec[t].lsn_,
                         persistent |-> persistent_lsn_]
          /\ l_txn' = [l_txn EXCEPT ![t].prev_lsn = l_rec[t].lsn_]
          /\ l_rec' = [l_rec EXCEPT ![t] = EmptyLogRecord]
  /\ UNCHANGED <<log_buffer_, flush_buffer_, log_buffer_size_, flush_buffer_size,
                 next_lsn_, persistent_lsn_, latch_, f_pc, l_offset, l_ret,
                 l_appended, log_file, log_undefined,
                 next_txn_id_, l_calls>>
  /\ UNCHANGED notLog

\* AppendLogRecord, line 129
AssignLsn(t) ==
  /\ LogRunning
  /\ l_pc[t] = "assign"
  /\ l_rec' = [l_rec EXCEPT ![t].lsn_ = next_lsn_]
  /\ next_lsn_' = next_lsn_ + 1
  /\ l_pc' = [l_pc EXCEPT ![t] = "offset"]
  /\ UNCHANGED <<log_buffer_, flush_buffer_, log_buffer_size_, flush_buffer_size,
                 persistent_lsn_, latch_, f_pc, l_offset, l_ret,
                 l_acked, l_appended, log_file, log_undefined,
                 l_txn, next_txn_id_, l_calls>>
  /\ UNCHANGED notLog

\* AppendLogRecord, line 130
ReadOffset(t) ==
  /\ LogRunning
  /\ l_pc[t] = "offset"
  /\ l_offset' = [l_offset EXCEPT ![t] = log_buffer_size_]
  /\ l_pc' = [l_pc EXCEPT ![t] = "copy"]
  /\ UNCHANGED <<log_buffer_, flush_buffer_, log_buffer_size_, flush_buffer_size,
                 next_lsn_, persistent_lsn_, latch_, f_pc, l_rec, l_ret,
                 l_acked, l_appended, log_file, log_undefined,
                 l_txn, next_txn_id_, l_calls>>
  /\ UNCHANGED notLog

\* AppendLogRecord, lines 131-154: a copy past the end of the buffer is
\* undefined
CopyRecord(t) ==
  /\ LogRunning
  /\ l_pc[t] = "copy"
  /\ IF l_offset[t] + l_rec[t].size_ > LOG_BUFFER_SIZE
     THEN /\ log_undefined' = TRUE
          /\ UNCHANGED log_buffer_
     ELSE /\ log_buffer_' = CopyInto(log_buffer_, l_offset[t], Serialize(l_rec[t]))
          /\ UNCHANGED log_undefined
  /\ l_pc' = [l_pc EXCEPT ![t] = "bump"]
  /\ UNCHANGED <<flush_buffer_, log_buffer_size_, flush_buffer_size,
                 next_lsn_, persistent_lsn_, latch_, f_pc, l_rec, l_offset, l_ret,
                 l_acked, l_appended, log_file,
                 l_txn, next_txn_id_, l_calls>>
  /\ UNCHANGED notLog

\* AppendLogRecord, lines 155-156, and the caller's next statement: Begin
\* returns (line 17), Commit and Abort call WaitTillFlushHappens
BumpSize(t) ==
  /\ LogRunning
  /\ l_pc[t] = "bump"
  /\ log_buffer_size_' = log_buffer_size_ + l_rec[t].size_
  /\ l_appended' = l_appended \cup {Serialize(l_rec[t])}
  /\ l_offset' = [l_offset EXCEPT ![t] = 0]
  /\ IF l_rec[t].log_record_type_ = "BEGIN"
     THEN /\ l_pc' = [l_pc EXCEPT ![t] = "active"]
          /\ l_txn' = [l_txn EXCEPT ![t].prev_lsn = l_rec[t].lsn_]
          /\ l_rec' = [l_rec EXCEPT ![t] = EmptyLogRecord]
          /\ l_ret' = [l_ret EXCEPT ![t] = "return"]
     ELSE /\ l_pc' = [l_pc EXCEPT ![t] = "enter_wait"]
          /\ l_ret' = [l_ret EXCEPT ![t] = "return"]
          /\ UNCHANGED <<l_txn, l_rec>>
  /\ UNCHANGED <<log_buffer_, flush_buffer_, flush_buffer_size,
                 next_lsn_, persistent_lsn_, latch_, f_pc,
                 l_acked, log_file, log_undefined,
                 next_txn_id_, l_calls>>
  /\ UNCHANGED notLog

\* BgFSync, lines 28-35, and SwapBuffers, line 49: the latch taken, the buffer
\* seen not to be empty, the buffers swapped
SwapPointers ==
  /\ LogRunning
  /\ f_pc = "sleep"
  /\ ~latch_
  /\ log_buffer_size_ # 0
  /\ latch_' = TRUE
  /\ log_buffer_' = flush_buffer_
  /\ flush_buffer_' = log_buffer_
  /\ f_pc' = "swap_size"
  /\ UNCHANGED <<log_buffer_size_, flush_buffer_size, next_lsn_, persistent_lsn_,
                 l_pc, l_rec, l_offset, l_ret, l_acked, l_appended,
                 log_file, log_undefined, l_txn, next_txn_id_, l_calls>>
  /\ UNCHANGED notLog

\* SwapBuffers, line 50
SwapSize ==
  /\ LogRunning
  /\ f_pc = "swap_size"
  /\ flush_buffer_size' = log_buffer_size_
  /\ f_pc' = "swap_reset"
  /\ UNCHANGED <<log_buffer_, flush_buffer_, log_buffer_size_, next_lsn_,
                 persistent_lsn_, latch_,
                 l_pc, l_rec, l_offset, l_ret, l_acked, l_appended,
                 log_file, log_undefined, l_txn, next_txn_id_, l_calls>>
  /\ UNCHANGED notLog

\* SwapBuffers, line 51, and the end of the block that holds the latch
SwapReset ==
  /\ LogRunning
  /\ f_pc = "swap_reset"
  /\ log_buffer_size_' = 0
  /\ latch_' = FALSE
  /\ f_pc' = "write"
  /\ UNCHANGED <<log_buffer_, flush_buffer_, flush_buffer_size, next_lsn_,
                 persistent_lsn_,
                 l_pc, l_rec, l_offset, l_ret, l_acked, l_appended,
                 log_file, log_undefined, l_txn, next_txn_id_, l_calls>>
  /\ UNCHANGED notLog

\* what WriteLog and LastLsn read of the flush buffer is defined
FlushReadable ==
  /\ flush_buffer_size <= LOG_BUFFER_SIZE
  /\ \A i \in 1..flush_buffer_size : flush_buffer_[i] # Uninitialized

\* BgFSync, lines 37-44: DiskManager::WriteLog appends the words to the log
\* file; then, the latch held, persistent_lsn_, the flush buffer emptied,
\* flushed_.notify_all()
WriteLog ==
  /\ LogRunning
  /\ f_pc = "write"
  /\ ~latch_
  /\ IF FlushReadable
     THEN /\ log_file' = log_file \o SubSeq(flush_buffer_, 1, flush_buffer_size)
          /\ persistent_lsn_' =
               IF LastLsn(flush_buffer_, flush_buffer_size) # INVALID_LSN
               THEN LastLsn(flush_buffer_, flush_buffer_size) ELSE persistent_lsn_
          /\ flush_buffer_size' = 0
          /\ l_pc' = [t \in LogThreads |->
                        IF l_pc[t] = "waiting" THEN "notified" ELSE l_pc[t]]
          /\ UNCHANGED log_undefined
     ELSE /\ log_undefined' = TRUE
          /\ UNCHANGED <<log_file, persistent_lsn_, flush_buffer_size, l_pc>>
  /\ f_pc' = "sleep"
  /\ UNCHANGED <<log_buffer_, flush_buffer_, log_buffer_size_, next_lsn_, latch_,
                 l_rec, l_offset, l_ret, l_acked, l_appended,
                 l_txn, next_txn_id_, l_calls>>
  /\ UNCHANGED notLog

\* the BEGIN record of an earlier transaction, the n-th to begin
EarlierBegin(n) ==
  [HeaderRecord(n - 1, INVALID_LSN, "BEGIN") EXCEPT !.lsn_ = n - 1]

\* the words of the BEGIN records of the first n transactions, in LSN order
RECURSIVE EarlierWords(_)
EarlierWords(n) ==
  IF n = 0 THEN << >> ELSE EarlierWords(n - 1) \o Serialize(EarlierBegin(n))

\* LogManager as constructed and RunFlushThread called; then NumEarlierTxns
\* transactions began, one after the other, and stay active: their records
\* are in the log buffer; the threads have no transaction yet
InitLog ==
  /\ log_buffer_ = CopyInto([i \in 1..LOG_BUFFER_SIZE |-> Uninitialized], 0,
                            EarlierWords(NumEarlierTxns))
  /\ flush_buffer_ = [i \in 1..LOG_BUFFER_SIZE |-> Uninitialized]
  /\ log_buffer_size_ = Len(EarlierWords(NumEarlierTxns))
  /\ flush_buffer_size = 0
  /\ next_lsn_ = NumEarlierTxns
  /\ persistent_lsn_ = INVALID_LSN
  /\ latch_ = FALSE
  /\ f_pc = "sleep"
  /\ l_pc = [t \in LogThreads |-> "idle"]
  /\ l_rec = [t \in LogThreads |-> EmptyLogRecord]
  /\ l_offset = [t \in LogThreads |-> 0]
  /\ l_ret = [t \in LogThreads |-> "return"]
  /\ l_acked = [acked |-> FALSE, lsn |-> INVALID_LSN, persistent |-> INVALID_LSN]
  /\ l_appended = {Serialize(EarlierBegin(n)) : n \in 1..NumEarlierTxns}
  /\ log_file = << >>
  /\ log_undefined = FALSE
  /\ l_txn = [t \in LogThreads |-> [id |-> INVALID_TXN_ID, prev_lsn |-> INVALID_LSN]]
  /\ next_txn_id_ = NumEarlierTxns
  /\ l_calls = 0

\* the words of the BEGIN records of the transactions after the first m, up
\* to the n-th
WordsBetween(m, n) ==
  SubSeq(EarlierWords(n), Len(EarlierWords(m)) + 1, Len(EarlierWords(n)))

\* the log manager in the middle of a flush: the flush thread has swapped the
\* buffers and is about to write the records of the first NumEarlierTxns
\* transactions; NumPendingTxns more transactions began meanwhile, their
\* records are in the log buffer
InitLogBusy ==
  /\ log_buffer_ = CopyInto([i \in 1..LOG_BUFFER_SIZE |-> Uninitialized], 0,
                            WordsBetween(NumEarlierTxns,
                                         NumEarlierTxns + NumPendingTxns))
  /\ flush_buffer_ = CopyInto([i \in 1..LOG_BUFFER_SIZE |-> Uninitialized], 0,
                              EarlierWords(NumEarlierTxns))
  /\ log_buffer_size_ = Len(WordsBetween(NumEarlierTxns,
                                         NumEarlierTxns + NumPendingTxns))
  /\ flush_buffer_size = Len(EarlierWords(NumEarlierTxns))
  /\ next_lsn_ = NumEarlierTxns + NumPendingTxns
  /\ persistent_lsn_ = INVALID_LSN
  /\ latch_ = FALSE
  /\ f_pc = "write"
  /\ l_pc = [t \in LogThreads |-> "idle"]
  /\ l_rec = [t \in LogThreads |-> EmptyLogRecord]
  /\ l_offset = [t \in LogThreads |-> 0]
  /\ l_ret = [t \in LogThreads |-> "return"]
  /\ l_acked = [acked |-> FALSE, lsn |-> INVALID_LSN, persistent |-> INVALID_LSN]
  /\ l_appended = {Serialize(EarlierBegin(n)) :
                     n \in 1..(NumEarlierTxns + NumPendingTxns)}
  /\ log_file = << >>
  /\ log_undefined = FALSE
  /\ l_txn = [t \in LogThreads |-> [id |-> INVALID_TXN_ID, prev_lsn |-> INVALID_LSN]]
  /\ next_txn_id_ = NumEarlierTxns + NumPendingTxns
  /\ l_calls = 0

NextLog ==
  \/ \E t \in LogThreads : LogBegin(t)
  \/ \E t \in LogThreads : LogCommit(t)
  \/ \E t \in LogThreads : LogAbort(t)
  \/ \E t \in LogThreads : WaitEnter(t)
  \/ \E t \in LogThreads : WaitReturn(t)
  \/ \E t \in LogThreads : AssignLsn(t)
  \/ \E t \in LogThreads : ReadOffset(t)
  \/ \E t \in LogThreads : CopyRecord(t)
  \/ \E t \in LogThreads : BumpSize(t)
  \/ SwapPointers
  \/ SwapSize
  \/ SwapReset
  \/ WriteLog

(***************************************************************************)
(* RECOVERY (log_recovery.cpp).  Before the crash transactions write log   *)
(* records and change the pages of one table; the classes TableHeap,       *)
(* TablePage, Tuple, LogRecord, DiskManager and BufferPoolManager are not  *)
(* among the files modelled and are taken from the specification: every    *)
(* operation on a tuple appends its record, changes the page in memory and *)
(* stamps the page with the record's LSN, and the log is on disk at once.  *)
(***************************************************************************)
RecTxns == 1..NumRecTxns
RecPages == 1..NumRecPages
Slots == 0..(NumSlots - 1)
TupleValues == 1..NumTupleValues
RecRIDs == {[page_id |-> p, slot_num |-> s] : p \in RecPages, s \in Slots}

\* a slot of a table page: the tuple, << >> when the slot is free, and the
\* delete mark
FreeSlot == [tuple |-> << >>, deleted |-> FALSE]

\* a table page as TablePage::Init leaves it in a zeroed frame
EmptyTablePage == [lsn |-> 0, slots |-> [s \in Slots |-> FreeSlot]]

\* TablePage::InsertTuple, UpdateTuple, MarkDelete, RollbackDelete and
\* ApplyDelete on the slot of a RID, called without a log manager
InsertTuple(page, rid, tuple) ==
  [page EXCEPT !.slots[rid.slot_num] = [tuple |-> tuple, deleted |-> FALSE]]

UpdateTuple(page, rid, new_tuple) ==
  IF page.slots[rid.slot_num].tuple = << >> THEN page
  ELSE [page EXCEPT !.slots[rid.slot_num].tuple = new_tuple]

MarkDelete(page, rid) ==
  IF page.slots[rid.slot_num].tuple = << >> THEN page
  ELSE [page EXCEPT !.slots[rid.slot_num].deleted = TRUE]

RollbackDelete(page, rid) ==
  [page EXCEPT !.slots[rid.slot_num].deleted = FALSE]

ApplyDelete(page, rid) ==
  [page EXCEPT !.slots[rid.slot_num] = FreeSlot]

\* the records of the data operations, as the constructors of LogRecord
\* build them
InsertRecord(txn_id, prev_lsn, rid, tuple) ==
  [HeaderRecord(txn_id, prev_lsn, "INSERT") EXCEPT
     !.size_ = HEADER_SIZE + 2 + 1 + Len(tuple),
     !.insert_rid_ = rid, !.insert_tuple_ = tuple]

DeleteRecord(txn_id, prev_lsn, type, rid, tuple) ==
  [HeaderRecord(txn_id, prev_lsn, type) EXCEPT
     !.size_ = HEADER_SIZE + 2 + 1 + Len(tuple),
     !.delete_rid_ = rid, !.delete_tuple_ = tuple]

UpdateRecord(txn_id, prev_lsn, rid, old_tuple, new_tuple) ==
  [HeaderRecord(txn_id, prev_lsn, "UPDATE") EXCEPT
     !.size_ = HEADER_SIZE + 2 + 1 + Len(old_tuple) + 1 + Len(new_tuple),
     !.update_rid_ = rid, !.old_tuple_ = old_tuple, !.new_tuple_ = new_tuple]

\* the RID a data record names
RidOf(rec) ==
  CASE rec.log_record_type_ = "INSERT" -> rec.insert_rid_
    [] rec.log_record_type_ = "UPDATE" -> rec.update_rid_
    [] rec.log_record_type_ \in {"MARKDELETE", "APPLYDELETE", "ROLLBACKDELETE"}
         -> rec.delete_rid_
    [] OTHER -> NoRID

\* what a data record does to the page of its RID
Apply(page, rec) ==
  CASE rec.log_record_type_ = "INSERT" ->
         InsertTuple(page, rec.insert_rid_, rec.insert_tuple_)
    [] rec.log_record_type_ = "UPDATE" ->
         UpdateTuple(page, rec.update_rid_, rec.new_tuple_)
    [] rec.log_record_type_ = "MARKDELETE" -> MarkDelete(page, rec.delete_rid_)
    [] rec.log_record_type_ = "ROLLBACKDELETE" ->
         RollbackDelete(page, rec.delete_rid_)
    [] rec.log_record_type_ = "APPLYDELETE" -> ApplyDelete(page, rec.delete_rid_)
    [] OTHER -> page

\* the log and the pages before the crash, as a record for the operators
\* below
Before ==
  [records |-> rc_records, file |-> rc_file, txn |-> rc_txn, mem |-> rc_mem]

\* AppendLogRecord and the log flushed: the record gets the next LSN, its
\* words go to the log file, the transaction remembers the LSN
Logged(B, t, rec) ==
  LET r == [rec EXCEPT !.lsn_ = Len(B.records), !.txn_id_ = t,
                       !.prev_lsn_ = B.txn[t].prev_lsn]
  IN  [B EXCEPT !.records = Append(@, r),
                !.file = @ \o Serialize(r),
                !.txn[t].prev_lsn = r.lsn_]

\* a data operation: the record logged, the page changed and stamped
Operated(B, t, rec) ==
  LET B1 == Logged(B, t, rec)
      r == B1.records[Len(B1.records)]
      p == RidOf(r).page_id
  IN  [B1 EXCEPT !.mem[p] = [Apply(@, r) EXCEPT !.lsn = r.lsn_]]

\* the record that takes back the write-set item w, as Abort has TableHeap
\* write it (transaction_manager.cpp, lines 61-75)
RollbackRecord(B, w) ==
  LET slot == B.mem[w.rid.page_id].slots[w.rid.slot_num]
  IN  CASE w.wtype = "DELETE" ->
             DeleteRecord(0, INVALID_LSN, "ROLLBACKDELETE", w.rid, slot.tuple)
        [] w.wtype = "INSERT" ->
             DeleteRecord(0, INVALID_LSN, "APPLYDELETE", w.rid, slot.tuple)
        [] w.wtype = "UPDATE" ->
             UpdateRecord(0, INVALID_LSN, w.rid, slot.tuple, w.tuple)

\* the loop of Abort over the write set, last item first
RECURSIVE RolledBack(_, _, _)
RolledBack(B, t, write_set) ==
  IF write_set = << >> THEN B
  ELSE RolledBack(
         Operated(B, t, RollbackRecord(B, write_set[Len(write_set)])),
         t, SubSeq(write_set, 1, Len(write_set) - 1))

\* the loop of Commit over the write set, last item first: the deletes are
\* applied (transaction_manager.cpp, lines 27-35)
RECURSIVE DeletesApplied(_, _, _)
DeletesApplied(B, t, write_set) ==
  IF write_set = << >> THEN B
  ELSE LET w == write_set[Len(write_set)]
           rest == SubSeq(write_set, 1, Len(write_set) - 1)
       IN  IF w.wtype = "DELETE"
           THEN DeletesApplied(
                  Operated(B, t, DeleteRecord(0, INVALID_LSN, "APPLYDELETE", w.rid,
                             B.mem[w.rid.page_id].slots[w.rid.slot_num].tuple)),
                  t, rest)
           ELSE DeletesApplied(B, t, rest)

SetBefore(B) ==
  /\ rc_records' = B.records
  /\ rc_file' = B.file
  /\ rc_txn' = B.txn
  /\ rc_mem' = B.mem

\* the state of recovery proper: untouched before the crash
redoVars == <<offset_, rc_buffer, log_size_read, logRecord, active_txn_,
              lsn_mapping_, rc_hung, rc_undefined, rc_redone, u_todo, u_lsn,
              rc_undone>>

Active(t) == rc_txn[t].state = "active"

\* strict two-phase locking on the tuples: no other transaction in progress
\* has written the RID
MayWrite(t, rid) ==
  /\ rc_pc = "run" /\ Active(t)
  /\ \A u \in RecTxns \ {t} :
       Active(u) =>
         \A i \in 1..Len(rc_txn[u].write_set) : rc_txn[u].write_set[i].rid # rid

WriteSetItem(wtype, rid, tuple) == [wtype |-> wtype, rid |-> rid, tuple |-> tuple]

SlotAt(rid) == rc_mem[rid.page_id].slots[rid.slot_num]

\* TransactionManager::Begin, lines 11-21: transaction ids increase
RcBegin(t) ==
  /\ rc_pc = "run"
  /\ rc_txn[t].state = "none"
  /\ \A u \in RecTxns : u < t => rc_txn[u].state # "none"
  /\ Len(rc_records) < MaxLogRecords
  /\ SetBefore([Logged(Before, t, HeaderRecord(t, INVALID_LSN, "BEGIN"))
                  EXCEPT !.txn[t].state = "active"])
  /\ UNCHANGED <<rc_pc, rc_disk, redoVars>>
  /\ UNCHANGED notRec

\* TableHeap::InsertTuple
RcInsert(t, rid, v) ==
  /\ MayWrite(t, rid)
  /\ SlotAt(rid).tuple = << >>
  /\ Len(rc_records) < MaxLogRecords
  /\ SetBefore([Operated(Before, t, InsertRecord(t, INVALID_LSN, rid, <<v>>))
                  EXCEPT !.txn[t].write_set =
                           Append(@, WriteSetItem("INSERT", rid, << >>))])
  /\ UNCHANGED <<rc_pc, rc_disk, redoVars>>
  /\ UNCHANGED notRec

\* TableHeap::UpdateTuple
RcUpdate(t, rid, v) ==
  /\ MayWrite(t, rid)
  /\ SlotAt(rid).tuple # << >> /\ ~SlotAt(rid).deleted
  /\ SlotAt(rid).tuple # <<v>>
  /\ Len(rc_records) < MaxLogRecords
  /\ SetBefore([Operated(Before, t,
                         UpdateRecord(t, INVALID_LSN, rid, SlotAt(rid).tuple, <<v>>))
                  EXCEPT !.txn[t].write_set =
                           Append(@, WriteSetItem("UPDATE", rid, SlotAt(rid).tuple))])
  /\ UNCHANGED <<rc_pc, rc_disk, redoVars>>
  /\ UNCHANGED notRec

\* TableHeap::MarkDelete
RcMarkDelete(t, rid) ==
  /\ MayWrite(t, rid)
  /\ SlotAt(rid).tuple # << >> /\ ~SlotAt(rid).deleted
  /\ Len(rc_records) < MaxLogRecords
  /\ SetBefore([Operated(Before, t,
                         DeleteRecord(t, INVALID_LSN, "MARKDELETE", rid,
                                      SlotAt(rid).tuple))
                  EXCEPT !.txn[t].write_set =
                           Append(@, WriteSetItem("DELETE", rid, SlotAt(rid).tuple))])
  /\ UNCHANGED <<rc_pc, rc_disk, redoVars>>
  /\ UNCHANGED notRec

\* what Commit and Abort leave: the write set worked off, the COMMIT or ABORT
\* record logged
Finished(B, t, type) ==
  [Logged(B, t, HeaderRecord(t, INVALID_LSN, type))
     EXCEPT !.txn[t].state = "finished", !.txn[t].write_set = << >>]

\* TransactionManager::Commit, lines 23-43
RcCommit(t) ==
  /\ rc_pc = "run" /\ Active(t)
  /\ LET B == Finished(DeletesApplied(Before, t, rc_txn[t].write_set), t, "COMMIT")
     IN  /\ Len(B.records) <= MaxLogRecords
         /\ SetBefore(B)
  /\ UNCHANGED <<rc_pc, rc_disk, redoVars>>
  /\ UNCHANGED notRec

\* TransactionManager::Abort, lines 57-83
RcAbort(t) ==
  /\ rc_pc = "run" /\ Active(t)
  /\ LET B == Finished(RolledBack(Before, t, rc_txn[t].write_set), t, "ABORT")
     IN  /\ Len(B.records) <= MaxLogRecords
         /\ SetBefore(B)
  /\ UNCHANGED <<rc_pc, rc_disk, redoVars>>
  /\ UNCHANGED notRec

\* the buffer pool writes a page of the table to disk
FlushPage(p) ==
  /\ rc_pc = "run"
  /\ rc_disk[p] # rc_mem[p]
  /\ rc_disk' = [rc_disk EXCEPT ![p] = rc_mem[p]]
  /\ UNCHANGED <<rc_pc, rc_records, rc_file, rc_txn, rc_mem, redoVars>>
  /\ UNCHANGED notRec

\* the crash and the restart: the pages in memory are lost, LogRecovery is
\* constructed
Crash ==
  /\ rc_pc = "run"
  /\ rc_pc' = "redo"
  /\ rc_mem' = rc_disk
  /\ UNCHANGED <<rc_records, rc_file, rc_txn, rc_disk, redoVars>>
  /\ UNCHANGED notRec

(***************************************************************************)
(* LogRecovery: DeserializeLogRecord, Redo, Undo                           *)
(***************************************************************************)
\* DiskManager::ReadLog(log_data, size, offset): false at or beyond the end
\* of the file; the words read, the rest of the buffer zeroed
HasLogs(file, offset) == offset < Len(file)

ReadLog(file, size, offset) ==
  [i \in 1..size |-> IF offset + i <= Len(file) THEN file[offset + i] ELSE 0]

\* enum class LogRecordType, backwards
TypeOf(code) ==
  CASE code = 1 -> "INSERT"
    [] code = 2 -> "MARKDELETE"
    [] code = 3 -> "APPLYDELETE"
    [] code = 4 -> "ROLLBACKDELETE"
    [] code = 5 -> "UPDATE"
    [] code = 6 -> "BEGIN"
    [] code = 7 -> "COMMIT"
    [] code = 8 -> "ABORT"
    [] code = 9 -> "NEWPAGE"
    [] OTHER -> "OTHER"

\* the word at offset i of the buffer; the buffer has LOG_BUFFER_SIZE words
WordAt(buf, i) == buf[i + 1]
Inside(i) == i >= 0 /\ i < LOG_BUFFER_SIZE

\* Tuple::DeserializeFrom at offset q: the length, then the data; over says
\* that it reads outside the buffer
TupleAt(buf, q) ==
  IF ~Inside(q) THEN [over |-> TRUE, tuple |-> << >>]
  ELSE IF WordAt(buf, q) < 0 \/ ~Inside(q + WordAt(buf, q))
  THEN [over |-> TRUE, tuple |-> << >>]
  ELSE [over |-> FALSE,
        tuple |-> [i \in 1..WordAt(buf, q) |-> WordAt(buf, q + i)]]

RIDAt(buf, q) == [page_id |-> WordAt(buf, q), slot_num |-> WordAt(buf, q + 1)]

\* DeserializeLogRecord, lines 29-51: the fields the switch sets in the
\* record it is given, pos the offset of the payload
Payload(buf, pos, rec) ==
  CASE rec.log_record_type_ = "INSERT" ->
         IF ~Inside(pos + 1) \/ TupleAt(buf, pos + 2).over
         THEN [over |-> TRUE, rec |-> rec]
         ELSE [over |-> FALSE,
               rec |-> [rec EXCEPT !.insert_rid_ = RIDAt(buf, pos),
                                   !.insert_tuple_ = TupleAt(buf, pos + 2).tuple]]
    [] rec.log_record_type_ = "APPLYDELETE" ->
         IF ~Inside(pos + 1) \/ TupleAt(buf, pos + 2).over
         THEN [over |-> TRUE, rec |-> rec]
         ELSE [over |-> FALSE,
               rec |-> [rec EXCEPT !.delete_rid_ = RIDAt(buf, pos),
                                   !.delete_tuple_ = TupleAt(buf, pos + 2).tuple]]
    [] rec.log_record_type_ \in {"ROLLBACKDELETE", "MARKDELETE"} ->
         IF ~Inside(pos + 1) THEN [over |-> TRUE, rec |-> rec]
         ELSE [over |-> FALSE,
               rec |-> [rec EXCEPT !.delete_rid_ = RIDAt(buf, pos)]]
    [] rec.log_record_type_ = "UPDATE" ->
         IF ~Inside(pos + 1) \/ TupleAt(buf, pos + 2).over
         THEN [over |-> TRUE, rec |-> rec]
         ELSE LET old == TupleAt(buf, pos + 2).tuple
                  new == TupleAt(buf, pos + 2 + Len(old))
              IN  IF new.over THEN [over |-> TRUE, rec |-> rec]
                  ELSE [over |-> FALSE,
                        rec |-> [rec EXCEPT !.update_rid_ = RIDAt(buf, pos),
                                            !.old_tuple_ = old,
                                            !.new_tuple_ = new.tuple]]
    [] rec.log_record_type_ = "NEWPAGE" ->
         IF ~Inside(pos) THEN [over |-> TRUE, rec |-> rec]
         ELSE [over |-> FALSE,
               rec |-> [rec EXCEPT !.prev_page_id_ = WordAt(buf, pos)]]
    [] OTHER -> [over |-> FALSE, rec |-> rec]

\* DeserializeLogRecord(data, log_record), data at offset p of the buffer:
\* what it returns, the record it leaves, and whether it read outside the
\* buffer, in the header or in the payload
DeserializeLogRecord(buf, p, rec) ==
  IF ~Inside(p) THEN [ok |-> FALSE, over |-> "header", rec |-> rec]
  ELSE IF WordAt(buf, p) = 0
  THEN [ok |-> FALSE, over |-> "none", rec |-> [rec EXCEPT !.size_ = 0]]
  ELSE IF ~Inside(p + 4)
  THEN [ok |-> FALSE, over |-> "header", rec |-> rec]
  ELSE IF WordAt(buf, p + 4) = 0
  THEN [ok |-> FALSE, over |-> "none",
        rec |-> [rec EXCEPT !.size_ = WordAt(buf, p),
                            !.log_record_type_ = "INVALID"]]
  ELSE LET header == [rec EXCEPT !.size_ = WordAt(buf, p),
                                 !.log_record_type_ = TypeOf(WordAt(buf, p + 4)),
                                 !.lsn_ = WordAt(buf, p + 1),
                                 !.txn_id_ = WordAt(buf, p + 2),
                                 !.prev_lsn_ = WordAt(buf, p + 3)]
           full == Payload(buf, p + HEADER_SIZE, header)
       IN  IF full.over THEN [ok |-> TRUE, over |-> "payload", rec |-> header]
           ELSE [ok |-> TRUE, over |-> "none", rec |-> full.rec]

\* the state of LogRecovery and the pages it works on, as a record for the
\* operators below
Recovery ==
  [pages |-> rc_disk, offset_ |-> offset_, buffer |-> rc_buffer,
   log_size_read |-> log_size_read, logRecord |-> logRecord,
   active_txn_ |-> active_txn_, lsn_mapping_ |-> lsn_mapping_,
   hung |-> rc_hung, undefined |-> rc_undefined, redone |-> rc_redone,
   undone |-> rc_undone]

SetRecovery(R) ==
  /\ rc_disk' = R.pages
  /\ offset_' = R.offset_
  /\ rc_buffer' = R.buffer
  /\ log_size_read' = R.log_size_read
  /\ logRecord' = R.logRecord
  /\ active_txn_' = R.active_txn_
  /\ lsn_mapping_' = R.lsn_mapping_
  /\ rc_hung' = R.hung
  /\ rc_undefined' = R.undefined
  /\ rc_redone' = R.redone
  /\ rc_undone' = R.undone

\* BufferPoolManager::FetchPage finds a page of the table
IsTableRID(rid) == rid.page_id \in RecPages /\ rid.slot_num \in Slots

\* Redo, lines 74-127: the case of the switch for the record rec, rid as
\* line 73 read it; a continue leaves the loop where it is, for ever
RedoCase(R, rec, rid) ==
  CASE rec.log_record_type_ = "BEGIN" ->
         [R EXCEPT !.active_txn_ = MapPut(@, rec.txn_id_, rec.lsn_)]
    [] rec.log_record_type_ \in {"ABORT", "COMMIT"} ->
         [R EXCEPT !.active_txn_ = MapErase(@, rec.txn_id_)]
    [] rec.log_record_type_ \in
         {"INSERT", "UPDATE", "MARKDELETE", "ROLLBACKDELETE", "APPLYDELETE"} ->
         LET R1 == [R EXCEPT !.active_txn_ = MapPut(@, rec.txn_id_, rec.lsn_)]
         IN  IF ~IsTableRID(rid) THEN [R1 EXCEPT !.undefined = TRUE]
             ELSE IF R.pages[rid.page_id].lsn >= rec.lsn_
             THEN [R1 EXCEPT !.hung = TRUE]
             ELSE [R1 EXCEPT !.pages[rid.page_id] =
                     CASE rec.log_record_type_ = "INSERT" ->
                            InsertTuple(@, rid, rec.insert_tuple_)
                       [] rec.log_record_type_ = "UPDATE" ->
                            UpdateTuple(@, rid, rec.new_tuple_)
                       [] rec.log_record_type_ = "MARKDELETE" -> MarkDelete(@, rid)
                       [] rec.log_record_type_ = "ROLLBACKDELETE" ->
                            RollbackDelete(@, rid)
                       [] rec.log_record_type_ = "APPLYDELETE" ->
                            ApplyDelete(@, rid)]
    [] rec.log_record_type_ = "NEWPAGE" ->
         LET R1 == [R EXCEPT !.active_txn_ = MapPut(@, rec.txn_id_, rec.lsn_)]
         IN  IF rec.prev_page_id_ \notin RecPages THEN [R1 EXCEPT !.undefined = TRUE]
             ELSE [R1 EXCEPT !.pages[rec.prev_page_id_] = EmptyTablePage]
    [] OTHER -> R

\* Redo, lines 72-136: one iteration of the inner loop, d what
\* DeserializeLogRecord returned
RedoIteration(R, d) ==
  LET R1 == RedoCase([R EXCEPT !.logRecord = d.rec], d.rec, d.rec.insert_rid_)
  IN  IF R1.hung \/ R1.undefined THEN R1
      ELSE [R1 EXCEPT
              !.lsn_mapping_ = MapPut(@, d.rec.lsn_, R.offset_ + R.log_size_read),
              !.log_size_read = @ + d.rec.size_,
              !.redone = Append(@, d.rec.lsn_)]

\* Redo, lines 67-71 and 138-139: the chunk at offset read, if there is one,
\* and the locals of the outer loop
ChunkRead(R, file, offset) ==
  IF HasLogs(file, offset)
  THEN [R EXCEPT !.offset_ = offset,
                 !.buffer = ReadLog(file, LOG_BUFFER_SIZE, offset),
                 !.logRecord = EmptyLogRecord,
                 !.log_size_read = 0]
  ELSE [R EXCEPT !.offset_ = offset]

Recovering == ~rc_hung /\ ~rc_undefined

\* Redo, lines 63-66
RedoStart ==
  /\ rc_pc = "redo"
  /\ SetRecovery(ChunkRead(Recovery, rc_file, 0))
  /\ rc_pc' = IF HasLogs(rc_file, 0) THEN "redo_records" ELSE "undo"
  /\ u_todo' = IF HasLogs(rc_file, 0) THEN u_todo ELSE DOMAIN active_txn_
  /\ UNCHANGED <<rc_records, rc_file, rc_txn, rc_mem, u_lsn>>
  /\ UNCHANGED notRec

\* Redo: a record deserialized and worked on
RedoRecord ==
  /\ rc_pc = "redo_records" /\ Recovering
  /\ LET d == DeserializeLogRecord(rc_buffer, log_size_read, logRecord)
     IN  /\ d.ok /\ d.over = "none"
         /\ SetRecovery(RedoIteration(Recovery, d))
  /\ UNCHANGED <<rc_pc, rc_records, rc_file, rc_txn, rc_mem, u_todo, u_lsn>>
  /\ UNCHANGED notRec

\* Redo, lines 138-140, after DeserializeLogRecord returned false: the next
\* chunk is read at limit + LOG_BUFFER_SIZE
NextChunk ==
  /\ SetRecovery(ChunkRead(Recovery, rc_file, LOG_BUFFER_SIZE + LOG_BUFFER_SIZE))
  /\ rc_pc' = IF HasLogs(rc_file, LOG_BUFFER_SIZE + LOG_BUFFER_SIZE)
              THEN "redo_records" ELSE "undo"
  /\ u_todo' = IF HasLogs(rc_file, LOG_BUFFER_SIZE + LOG_BUFFER_SIZE)
               THEN u_todo ELSE DOMAIN active_txn_
  /\ UNCHANGED <<rc_records, rc_file, rc_txn, rc_mem, u_lsn>>
  /\ UNCHANGED notRec

RedoChunk ==
  /\ rc_pc = "redo_records" /\ Recovering
  /\ LET d == DeserializeLogRecord(rc_buffer, log_size_read, logRecord)
     IN  ~d.ok /\ d.over = "none"
  /\ NextChunk

\* Redo: DeserializeLogRecord reads beyond the end of log_buffer_.  What it
\* finds there is not defined: when the size or the type of the record lies
\* beyond the end the words may make it return false; anything else can
\* follow.
RedoOverread ==
  /\ rc_pc = "redo_records" /\ Recovering
  /\ LET d == DeserializeLogRecord(rc_buffer, log_size_read, logRecord)
     IN  /\ d.over # "none"
         /\ \/ d.over = "header" /\ NextChunk
            \/ /\ SetRecovery([Recovery EXCEPT !.undefined = TRUE])
               /\ UNCHANGED <<rc_pc, rc_records, rc_file, rc_txn, rc_mem,
                              u_todo, u_lsn>>
               /\ UNCHANGED notRec

\* no record is being undone
NoLsn == INVALID_LSN - 1

\* lsn_mapping_[lsn]: operator[] adds the key with offset 0 when it is absent
MappingWith(m, lsn) == IF lsn \in DOMAIN m THEN m ELSE MapPut(m, lsn, 0)

\* Undo, lines 160-186: the case of the switch for the record rec, rid as
\* line 158 read it; a continue leaves the loop where it is, for ever
UndoCase(R, rec, rid) ==
  IF rec.log_record_type_ \in {"INSERT", "MARKDELETE", "UPDATE"}
  THEN IF ~IsTableRID(rid) THEN [R EXCEPT !.undefined = TRUE]
       ELSE IF R.pages[rid.page_id].lsn >= rec.lsn_ THEN [R EXCEPT !.hung = TRUE]
       ELSE [R EXCEPT !.pages[rid.page_id] =
               CASE rec.log_record_type_ = "INSERT" -> ApplyDelete(@, rid)
                 [] rec.log_record_type_ = "MARKDELETE" -> RollbackDelete(@, rid)
                 [] rec.log_record_type_ = "UPDATE" ->
                      UpdateTuple(@, rid, rec.old_tuple_)]
  ELSE R

\* Undo, lines 157-190, d what DeserializeLogRecord returned
UndoIteration(R, d) ==
  LET R1 == UndoCase(R, d.rec, d.rec.insert_rid_)
  IN  IF R1.hung \/ R1.undefined THEN R1
      ELSE [R1 EXCEPT !.undone = Append(@, d.rec.lsn_)]

\* Undo, lines 149-151: the next item of active_txn_, in the order of the
\* unordered map
UndoPick(t) ==
  /\ rc_pc = "undo" /\ Recovering
  /\ t \in u_todo
  /\ u_todo' = u_todo \ {t}
  /\ u_lsn' = active_txn_[t]
  /\ rc_pc' = "undo_records"
  /\ UNCHANGED <<rc_records, rc_file, rc_txn, rc_mem, rc_disk, offset_, rc_buffer,
                 log_size_read, logRecord, active_txn_, lsn_mapping_, rc_hung,
                 rc_undefined, rc_redone, rc_undone>>
  /\ UNCHANGED notRec

\* Undo, lines 152-191: one iteration of the loop over the records of a
\* transaction
UndoRecord ==
  /\ rc_pc = "undo_records" /\ Recovering
  /\ LET m == MappingWith(lsn_mapping_, u_lsn)
         offset == m[u_lsn]
         buf == ReadLog(rc_file, LOG_BUFFER_SIZE, offset)
         d == DeserializeLogRecord(buf, 0, EmptyLogRecord)
         R == [Recovery EXCEPT !.lsn_mapping_ = m]
     IN  IF ~HasLogs(rc_file, offset)
         THEN /\ SetRecovery(R)
              /\ rc_pc' = "undo" /\ u_lsn' = NoLsn
         ELSE IF d.over # "none"
         THEN /\ SetRecovery([R EXCEPT !.buffer = buf, !.undefined = TRUE])
              /\ UNCHANGED <<rc_pc, u_lsn>>
         ELSE IF ~d.ok
         THEN /\ SetRecovery([R EXCEPT !.buffer = buf])
              /\ rc_pc' = "undo" /\ u_lsn' = NoLsn
         ELSE LET R1 == UndoIteration([R EXCEPT !.buffer = buf], d)
              IN  /\ SetRecovery(R1)
                  /\ IF R1.hung \/ R1.undefined THEN UNCHANGED <<rc_pc, u_lsn>>
                     ELSE IF d.rec.prev_lsn_ = INVALID_LSN
                     THEN rc_pc' = "undo" /\ u_lsn' = NoLsn
                     ELSE rc_pc' = rc_pc /\ u_lsn' = d.rec.prev_lsn_
  /\ UNCHANGED <<rc_records, rc_file, rc_txn, rc_mem, u_todo>>
  /\ UNCHANGED notRec

\* Undo, lines 192-193: the loop over active_txn_ is over
UndoReturns ==
  /\ rc_pc = "undo" /\ Recovering
  /\ u_todo = {}
  /\ rc_pc' = "recovered"
  /\ UNCHANGED <<rc_records, rc_file, rc_txn, rc_mem, rc_disk, redoVars>>
  /\ UNCHANGED notRec

InitRecovery ==
  /\ rc_pc = "run"
  /\ rc_records = << >>
  /\ rc_file = << >>
  /\ rc_txn = [t \in RecTxns |->
                 [state |-> "none", prev_lsn |-> INVALID_LSN, write_set |-> << >>]]
  /\ rc_mem = [p \in RecPages |-> EmptyTablePage]
  /\ rc_disk = [p \in RecPages |-> EmptyTablePage]
  /\ offset_ = 0
  /\ rc_buffer = [i \in 1..LOG_BUFFER_SIZE |-> 0]
  /\ log_size_read = 0
  /\ logRecord = EmptyLogRecord
  /\ active_txn_ = << >>
  /\ lsn_mapping_ = << >>
  /\ rc_hung = FALSE
  /\ rc_undefined = FALSE
  /\ rc_redone = << >>
  /\ u_todo = {}
  /\ u_lsn = NoLsn
  /\ rc_undone = << >>

\* a table of which the last page got a tuple before logging was switched on
\* (TransactionManager and TableHeap write no record while ENABLE_LOGGING is
\* false), the page flushed
LoadedPage == InsertTuple(EmptyTablePage, [page_id |-> NumRecPages, slot_num |-> 0], <<1>>)

InitRecoveryLoaded ==
  /\ rc_pc = "run"
  /\ rc_records = << >>
  /\ rc_file = << >>
  /\ rc_txn = [t \in RecTxns |->
                 [state |-> "none", prev_lsn |-> INVALID_LSN, write_set |-> << >>]]
  /\ rc_mem = [p \in RecPages |-> IF p = NumRecPages THEN LoadedPage ELSE EmptyTablePage]
  /\ rc_disk = rc_mem
  /\ offset_ = 0
  /\ rc_buffer = [i \in 1..LOG_BUFFER_SIZE |-> 0]
  /\ log_size_read = 0
  /\ logRecord = EmptyLogRecord
  /\ active_txn_ = << >>
  /\ lsn_mapping_ = << >>
  /\ rc_hung = FALSE
  /\ rc_undefined = FALSE
  /\ rc_redone = << >>
  /\ u_todo = {}
  /\ u_lsn = NoLsn
  /\ rc_undone = << >>

NextRecovery ==
  \/ \E t \in RecTxns : RcBegin(t)
  \/ \E t \in RecTxns, rid \in RecRIDs, v \in TupleValues : RcInsert(t, rid, v)
  \/ \E t \in RecTxns, rid \in RecRIDs, v \in TupleValues : RcUpdate(t, rid, v)
  \/ \E t \in RecTxns, rid \in RecRIDs : RcMarkDelete(t, rid)
  \/ \E t \in RecTxns : RcCommit(t)
  \/ \E t \in RecTxns : RcAbort(t)
  \/ \E p \in RecPages : FlushPage(p)
  \/ Crash
  \/ RedoStart
  \/ RedoRecord
  \/ RedoChunk
  \/ RedoOverread
  \/ \E t \in RecTxns : UndoPick(t)
  \/ UndoRecord
  \/ UndoReturns

(***************************************************************************)
(* EXTENDIBLE HASH TABLE, several threads (extendible_hash.cpp).  Every    *)
(* thread runs Find, Insert or Remove step by step; a step is the taking   *)
(* of a latch, or the beginning or the end of an access to the directory   *)
(* array or to a bucket's entry vector.  bucketSize is 1.                  *)
(***************************************************************************)
HashThreads == 1..NumHashThreads
ConcKeys == 0..MaxConcKey

\* no thread holds the latch
Free == 0

\* a thread outside every call
IdleThread ==
  [pc |-> "idle", op |-> "none", key |-> 0, value |-> NoValue, bucketId |-> 0,
   bucket |-> 0, fullBucket |-> 0, b0 |-> 0, b1 |-> 0]

\* the bucket whose entry vector thread t is changing, and the one it is
\* reading
Modifying(t) ==
  CASE hc[t].pc = "modifying" -> {hc[t].bucket}
    [] hc[t].pc = "moving" -> {hc[t].fullBucket}
    [] OTHER -> {}

Scanning(t) == IF hc[t].pc = "scanning" THEN {hc[t].bucket} ELSE {}

\* thread t is reading the directory array, is replacing or rewiring it
ReadingDirectory(t) == hc[t].pc = "loading"
WritingDirectory(t) == hc[t].pc \in {"doubling", "rewiring"}

\* two threads are in accesses that conflict: what follows is not defined
Racing ==
  \E t, u \in HashThreads :
    /\ t # u
    /\ \/ Modifying(t) \cap (Modifying(u) \cup Scanning(u)) # {}
       \/ WritingDirectory(t) /\ ReadingDirectory(u)

ConcRunning(t, pc) == ~Racing /\ hc[t].pc = pc

hashTableVars == <<globalDepth, numBuckets, buckets, heap>>
hashGhostVars == <<bucketSize, h_ret, h_model, h_ever, h_distinct, h_ops, h_hung>>

\* thread t goes on to pc with the fields of its record changed to those of f
Goes(t, pc, f) ==
  hc' = [hc EXCEPT ![t] = [x \in DOMAIN @ |->
                             IF x = "pc" THEN pc
                             ELSE IF x \in DOMAIN f THEN f[x] ELSE @[x]]]

NoFields == [none |-> 0]

\* a thread enters Find, Insert or Remove (lines 99, 117, 212: HashKey)
ConcCall(t, op, key, value) ==
  /\ ConcRunning(t, "idle")
  /\ hc_calls < MaxConcCalls
  /\ hc_calls' = hc_calls + 1
  /\ hc' = [hc EXCEPT ![t] = [IdleThread EXCEPT !.pc = "index", !.op = op,
                                                !.key = key, !.value = value]]
  /\ UNCHANGED <<hashTableVars, hashGhostVars, bucketsLatch, b_latch>>
  /\ UNCHANGED notConc

\* BucketIndex, lines 62-66, called at lines 100, 118 and 213: the index
\* computed under bucketsLatch
ConcBucketIndex(t) ==
  /\ ConcRunning(t, "index")
  /\ bucketsLatch = Free
  /\ Goes(t, "load", [bucketId |-> BucketIndex(HashKey(hc[t].key), globalDepth)])
  /\ UNCHANGED <<hashTableVars, hashGhostVars, bucketsLatch, b_latch, hc_calls>>
  /\ UNCHANGED notConc

\* lines 101, 119 and 215: buckets[bucketId] is read, no latch held
LoadBegin(t) ==
  /\ ConcRunning(t, "load")
  /\ Goes(t, "loading", NoFields)
  /\ UNCHANGED <<hashTableVars, hashGhostVars, bucketsLatch, b_latch, hc_calls>>
  /\ UNCHANGED notConc

LoadEnd(t) ==
  /\ ConcRunning(t, "loading")
  /\ Goes(t, IF hc[t].op = "Find" THEN "scan" ELSE "latch",
          [bucket |-> buckets[hc[t].bucketId]])
  /\ UNCHANGED <<hashTableVars, hashGhostVars, bucketsLatch, b_latch, hc_calls>>
  /\ UNCHANGED notConc

\* Find, lines 102-108: the loop over bucket->entries, no latch taken
ScanBegin(t) ==
  /\ ConcRunning(t, "scan")
  /\ Goes(t, "scanning", NoFields)
  /\ UNCHANGED <<hashTableVars, hashGhostVars, bucketsLatch, b_latch, hc_calls>>
  /\ UNCHANGED notConc

ScanEnd(t) ==
  /\ ConcRunning(t, "scanning")
  /\ LET i == FirstIndex(heap[hc[t].bucket].entries, hc[t].key)
     IN  Goes(t, "idle", [value |-> IF i = 0 THEN NoValue
                                    ELSE heap[hc[t].bucket].entries[i][2]])
  /\ UNCHANGED <<hashTableVars, hashGhostVars, bucketsLatch, b_latch, hc_calls>>
  /\ UNCHANGED notConc

\* Remove, line 121, and Insert, line 217: lock_guard on bucket->latch
LatchBucket(t) ==
  /\ ConcRunning(t, "latch")
  /\ b_latch[hc[t].bucket] = Free
  /\ b_latch' = [b_latch EXCEPT ![hc[t].bucket] = t]
  /\ Goes(t, "modify", NoFields)
  /\ UNCHANGED <<hashTableVars, hashGhostVars, bucketsLatch, hc_calls>>
  /\ UNCHANGED notConc

\* Remove, lines 123-131, and Insert, line 218: the entry vector of the
\* bucket changes
ModifyBegin(t) ==
  /\ ConcRunning(t, "modify")
  /\ Goes(t, "modifying", NoFields)
  /\ UNCHANGED <<hashTableVars, hashGhostVars, bucketsLatch, b_latch, hc_calls>>
  /\ UNCHANGED notConc

ModifyEnd(t) ==
  /\ ConcRunning(t, "modifying")
  /\ LET a == hc[t].bucket
         vec == heap[a].entries
         i == FirstIndex(vec, hc[t].key)
         erased == IF i = 0 THEN vec
                   ELSE SubSeq(vec, 1, i - 1) \o SubSeq(vec, i + 1, Len(vec))
         pushed == Append(vec, <<hc[t].key, hc[t].value>>)
     IN  IF hc[t].op = "Remove"
         THEN /\ heap' = [heap EXCEPT ![a].entries = erased]
              /\ Goes(t, "unlatch", NoFields)
         ELSE /\ heap' = [heap EXCEPT ![a].entries = pushed]
              \* lines 220-221 and 137-139
              /\ IF Len(pushed) > bucketSize
                 THEN Goes(t, "redist", [fullBucket |-> a])
                 ELSE Goes(t, "unlatch", NoFields)
  /\ UNCHANGED <<globalDepth, numBuckets, buckets, hashGhostVars, bucketsLatch,
                 b_latch, hc_calls>>
  /\ UNCHANGED notConc

\* the end of Remove and of Insert: the lock_guard lets go of the latch
UnlatchBucket(t) ==
  /\ ConcRunning(t, "unlatch")
  /\ b_latch' = [b_latch EXCEPT ![hc[t].bucket] = Free]
  /\ Goes(t, "idle", NoFields)
  /\ UNCHANGED <<hashTableVars, hashGhostVars, bucketsLatch, hc_calls>>
  /\ UNCHANGED notConc

\* redist, line 141: BucketIndex under bucketsLatch
RedistIndex(t) ==
  /\ ConcRunning(t, "redist")
  /\ bucketsLatch = Free
  /\ Goes(t, "depth", [bucketId |-> BucketIndex(HashKey(hc[t].key), globalDepth)])
  /\ UNCHANGED <<hashTableVars, hashGhostVars, bucketsLatch, b_latch, hc_calls>>
  /\ UNCHANGED notConc

\* redist, line 144; a bucket whose entries no split tells apart is split for
\* ever
RedistDepth(t) ==
  /\ ConcRunning(t, "depth")
  /\ Goes(t, IF SplitsForever(Table, hc[t].fullBucket) THEN "splits_for_ever"
             ELSE IF heap[hc[t].fullBucket].depth = globalDepth THEN "double"
             ELSE "move", NoFields)
  /\ UNCHANGED <<hashTableVars, hashGhostVars, bucketsLatch, b_latch, hc_calls>>
  /\ UNCHANGED notConc

\* doubleBuckets, line 26
DoubleLock(t) ==
  /\ ConcRunning(t, "double")
  /\ bucketsLatch = Free
  /\ bucketsLatch' = t
  /\ Goes(t, "doubling", NoFields)
  /\ UNCHANGED <<hashTableVars, hashGhostVars, b_latch, hc_calls>>
  /\ UNCHANGED notConc

\* doubleBuckets, lines 28-44
DoubleEnd(t) ==
  /\ ConcRunning(t, "doubling")
  /\ LET T == doubleBuckets(Table)
     IN  /\ buckets' = T.buckets
         /\ globalDepth' = T.globalDepth
         /\ numBuckets' = T.numBuckets
  /\ bucketsLatch' = Free
  /\ Goes(t, "move", NoFields)
  /\ UNCHANGED <<heap, hashGhostVars, b_latch, hc_calls>>
  /\ UNCHANGED notConc

\* redist, lines 148-182: the entries of fullBucket are divided between it
\* and a new bucket; the thread holds the latch of the bucket Insert latched
MoveBegin(t) ==
  /\ ConcRunning(t, "move")
  /\ Goes(t, "moving", NoFields)
  /\ UNCHANGED <<hashTableVars, hashGhostVars, bucketsLatch, b_latch, hc_calls>>
  /\ UNCHANGED notConc

MoveEnd(t) ==
  /\ ConcRunning(t, "moving")
  /\ LET fullBucket == hc[t].fullBucket
         curDepth == heap[fullBucket].depth
         diffBit == Pow2(curDepth)
         fresh == Len(heap) + 1
         old == heap[fullBucket].entries
         stay0 == SelectSeq(old, LAMBDA e : ~BitSet(HashKey(e[1]), diffBit))
         stay1 == SelectSeq(old, LAMBDA e : BitSet(HashKey(e[1]), diffBit))
         low == ~BitSet(hc[t].bucketId, diffBit)
         b0 == IF low THEN fullBucket ELSE fresh
         b1 == IF low THEN fresh ELSE fullBucket
     IN  /\ heap' = [a \in 1..fresh |->
                       IF a = b0 THEN [depth |-> curDepth + 1, entries |-> stay0]
                       ELSE IF a = b1 THEN [depth |-> curDepth + 1, entries |-> stay1]
                       ELSE heap[a]]
         /\ b_latch' = Append(b_latch, Free)
         /\ Goes(t, "rewire", [b0 |-> b0, b1 |-> b1])
  /\ UNCHANGED <<globalDepth, numBuckets, buckets, hashGhostVars, bucketsLatch,
                 hc_calls>>
  /\ UNCHANGED notConc

\* redist, line 184
RewireLock(t) ==
  /\ ConcRunning(t, "rewire")
  /\ bucketsLatch = Free
  /\ bucketsLatch' = t
  /\ Goes(t, "rewiring", NoFields)
  /\ UNCHANGED <<hashTableVars, hashGhostVars, b_latch, hc_calls>>
  /\ UNCHANGED notConc

\* redist, lines 185-200; the depth of b0 and b1 is one more than curDepth
RewireEnd(t) ==
  /\ ConcRunning(t, "rewiring")
  /\ LET bucketId == hc[t].bucketId
         diffBit == Pow2(heap[hc[t].b0].depth - 1)
         low == ~BitSet(bucketId, diffBit)
         other == (bucketId + diffBit) % numBuckets
     IN  buckets' = [i \in DOMAIN buckets |->
                       IF i = other THEN (IF low THEN hc[t].b1 ELSE hc[t].b0)
                       ELSE IF i = bucketId THEN (IF low THEN hc[t].b0 ELSE hc[t].b1)
                       ELSE buckets[i]]
  /\ bucketsLatch' = Free
  /\ IF isFull(heap[hc[t].b0]) THEN Goes(t, "redist", [fullBucket |-> hc[t].b0])
     ELSE IF isFull(heap[hc[t].b1]) THEN Goes(t, "redist", [fullBucket |-> hc[t].b1])
     ELSE Goes(t, "unlatch", [fullBucket |-> 0])
  /\ UNCHANGED <<globalDepth, numBuckets, heap, hashGhostVars, b_latch, hc_calls>>
  /\ UNCHANGED notConc

InitConc ==
  /\ hc = [t \in HashThreads |-> IdleThread]
  /\ bucketsLatch = Free
  /\ b_latch = <<Free, Free>>
  /\ hc_calls = 0

NextConc ==
  \/ \E t \in HashThreads, op \in {"Find", "Insert", "Remove"}, key \in ConcKeys,
        value \in Values : ConcCall(t, op, key, value)
  \/ \E t \in HashThreads : ConcBucketIndex(t)
  \/ \E t \in HashThreads : LoadBegin(t)
  \/ \E t \in HashThreads : LoadEnd(t)
  \/ \E t \in HashThreads : ScanBegin(t)
  \/ \E t \in HashThreads : ScanEnd(t)
  \/ \E t \in HashThreads : LatchBucket(t)
  \/ \E t \in HashThreads : ModifyBegin(t)
  \/ \E t \in HashThreads : ModifyEnd(t)
  \/ \E t \in HashThreads : UnlatchBucket(t)
  \/ \E t \in HashThreads : RedistIndex(t)
  \/ \E t \in HashThreads : RedistDepth(t)
  \/ \E t \in HashThreads : DoubleLock(t)
  \/ \E t \in HashThreads : DoubleEnd(t)
  \/ \E t \in HashThreads : MoveBegin(t)
  \/ \E t \in HashThreads : MoveEnd(t)
  \/ \E t \in HashThreads : RewireLock(t)
  \/ \E t \in HashThreads : RewireEnd(t)

(***************************************************************************)
(* THE B+ TREE CALLED BY SEVERAL THREADS.  Insert and GetValue run as      *)
(* steps between which the other threads run: a step ends where the code   *)
(* asks for a latch, gives one up, or takes int_mtx.  What a thread does   *)
(* to a page while it holds the page's latch is part of one step.          *)
(***************************************************************************)
TreeThreads == 1..NumTreeThreads
CrabKeys == 1..MaxCrabKey

IdleCrab ==
  [pc |-> "idle", op |-> "none", key |-> 0, value |-> 0, page |-> 0,
   read_only |-> TRUE, page_set |-> << >>, held |-> {}, in_new_tree |-> FALSE,
   crabbing |-> FALSE, known |-> NoValue, ret |-> FALSE]

\* the latch t holds on page p in mode w, as the thread believes
Hold(p, w) == [page |-> p, w |-> w]

\* a latch a thread believes it holds is no longer held: another thread has
\* released it, and the accesses to the page that follow are a data race
LatchBroken ==
  \E t \in TreeThreads : \E h \in bt[t].held :
    IF h.w THEN ~t_latch[h.page].w ELSE t_latch[h.page].r = 0

CrabRunning(t, pc) == ~bt_undefined /\ ~LatchBroken /\ bt[t].pc = pc

treeStateVars == <<root_page_id_, pages, t_latch>>
treeGhostVars == <<t_ret, t_model, t_ops, t_hung>>

\* thread t goes on with the fields of its record changed to those of f
CrabGoes(t, f) ==
  bt' = [bt EXCEPT ![t] = [x \in DOMAIN @ |->
                             IF x \in DOMAIN f THEN f[x] ELSE @[x]]]

\* the call returns ret: the record of the thread is as before the call but
\* for what it returned
CrabReturns(t, latches, ret) ==
  /\ bt' = [bt EXCEPT ![t] = [IdleCrab EXCEPT !.op = bt[t].op,
                                               !.key = bt[t].key,
                                               !.value = bt[t].value,
                                               !.known = bt[t].known,
                                               !.held = latches,
                                               !.ret = ret,
                                               !.pc = "returned"]]
  /\ int_mtx' = IF bt[t].in_new_tree THEN Free ELSE int_mtx
  /\ bt_inserted' = IF bt[t].op = "Insert" /\ ret
                    THEN [bt_inserted EXCEPT ![bt[t].key] = bt[t].value]
                    ELSE bt_inserted

\* the caller takes the result and is ready for its next call
CrabDone(t) ==
  /\ CrabRunning(t, "returned")
  /\ bt' = [bt EXCEPT ![t] = [IdleCrab EXCEPT !.held = bt[t].held]]
  /\ UNCHANGED <<treeStateVars, treeGhostVars, int_mtx, bt_calls, bt_inserted,
                 bt_called, bt_undefined>>
  /\ UNCHANGED notCrab

\* Insert, lines 68-70: IsEmpty() is read
CrabInsert(t, key, value) ==
  /\ CrabRunning(t, "idle")
  /\ bt_calls < MaxCrabCalls
  /\ bt_calls' = bt_calls + 1
  /\ bt_called' = [bt_called EXCEPT ![key] = @ + 1]
  /\ bt' = [bt EXCEPT ![t] =
              [IdleCrab EXCEPT !.op = "Insert", !.key = key, !.value = value,
                 !.held = bt[t].held,
                 !.pc = IF root_page_id_ = INVALID_PAGE_ID
                        THEN "int_mtx" ELSE "root"]]
  /\ UNCHANGED <<treeStateVars, treeGhostVars, int_mtx, bt_inserted,
                 bt_undefined>>
  /\ UNCHANGED notCrab

\* Insert, lines 71-72, and StartNewTree, line 88: int_mtx is taken; if the
\* tree is still empty NewPage(root_page_id_) stores the id of a zeroed frame
\* in root_page_id_
TakeIntMtx(t) ==
  /\ CrabRunning(t, "int_mtx")
  /\ int_mtx = Free
  /\ IF root_page_id_ = INVALID_PAGE_ID
     THEN /\ int_mtx' = t
          /\ root_page_id_' = NewPageId(Tree)
          /\ pages' = NewPage(Tree).pages
          /\ t_latch' = NewPage(Tree).latch
          /\ CrabGoes(t, [pc |-> "init", in_new_tree |-> TRUE])
     ELSE /\ CrabGoes(t, [pc |-> "root"])
          /\ UNCHANGED <<treeStateVars, int_mtx>>
  /\ UNCHANGED <<treeGhostVars, bt_calls, bt_inserted, bt_called, bt_undefined>>
  /\ UNCHANGED notCrab

\* StartNewTree, lines 93-98: the new root becomes an empty leaf, then
\* InsertIntoLeaf
InitNewRoot(t) ==
  /\ CrabRunning(t, "init")
  /\ pages' = [pages EXCEPT ![root_page_id_] = LeafInit(@, INVALID_PAGE_ID)]
  /\ CrabGoes(t, [pc |-> "root"])
  /\ UNCHANGED <<root_page_id_, t_latch, treeGhostVars, int_mtx, bt_calls,
                 bt_inserted, bt_called, bt_undefined>>
  /\ UNCHANGED notCrab

\* GetValue, lines 45-47: IsEmpty() is read.  known is the value an Insert of
\* the key that had returned true before this call stored
CrabGetValue(t, key) ==
  /\ CrabRunning(t, "idle")
  /\ bt_calls < MaxCrabCalls
  /\ bt_calls' = bt_calls + 1
  /\ bt' = [bt EXCEPT ![t] =
              [IdleCrab EXCEPT !.op = "GetValue", !.key = key,
                 !.known = bt_inserted[key],
                 !.held = bt[t].held,
                 !.pc = IF root_page_id_ = INVALID_PAGE_ID
                        THEN "returned" ELSE "root"]]
  /\ UNCHANGED <<treeStateVars, treeGhostVars, int_mtx, bt_inserted, bt_called,
                 bt_undefined>>
  /\ UNCHANGED notCrab

\* GetLeafPage, line 541: root_page_id_ is read for GetPage
ReadRoot(t) ==
  /\ CrabRunning(t, "root")
  /\ CrabGoes(t, [pc |-> "latch", page |-> root_page_id_])
  /\ UNCHANGED <<treeStateVars, treeGhostVars, int_mtx, bt_calls, bt_inserted,
                 bt_called, bt_undefined>>
  /\ UNCHANGED notCrab

\* the latch of page p can be given in the mode asked for
MayLatch(p, read_only) ==
  IF read_only THEN ~t_latch[p].w
  ELSE ~t_latch[p].w /\ t_latch[p].r = 0

\* t_latch with the latch of p given
Latched(p, read_only) ==
  IF read_only THEN [t_latch EXCEPT ![p].r = @ + 1]
  ELSE [t_latch EXCEPT ![p].w = TRUE]

\* GetPage, lines 95-108, in GetLeafPage, lines 541 and 553, and what the
\* thread reads in the page it has latched: IsLeafPage, line 544, and Lookup,
\* line 549.  A frame that is not a tree page is read as an internal page.
LatchPage(t) ==
  LET p == bt[t].page
      with == [held |-> bt[t].held \cup {Hold(p, ~bt[t].read_only)},
               page_set |-> IF bt[t].read_only THEN bt[t].page_set
                            ELSE Append(bt[t].page_set, p),
               crabbing |-> bt[t].read_only]
  IN  /\ CrabRunning(t, "latch")
      /\ MayLatch(p, bt[t].read_only)
      /\ t_latch' = Latched(p, bt[t].read_only)
      /\ CASE pages[p].page_type = "LEAF_PAGE" ->
                /\ CrabGoes(t, with @@ [pc |-> "leaf"])
                /\ UNCHANGED bt_undefined
           [] pages[p].page_type = "INTERNAL_PAGE" ->
                /\ CrabGoes(t, with @@ [pc |-> IF bt[t].read_only
                                               THEN "release" ELSE "child"])
                /\ UNCHANGED bt_undefined
           [] OTHER ->
                /\ CrabGoes(t, with @@ [pc |-> "undefined"])
                /\ bt_undefined' = TRUE
      /\ UNCHANGED <<root_page_id_, pages, treeGhostVars, int_mtx, bt_calls,
                     bt_inserted, bt_called>>
      /\ UNCHANGED notCrab

\* t_latch with the latch h given up
Unlatched1(h) ==
  IF h.w THEN [t_latch EXCEPT ![h.page].w = FALSE]
  ELSE [t_latch EXCEPT ![h.page].r = IF @ > 0 THEN @ - 1 ELSE 0]

\* GetLeafPage, lines 549-552, read_only: the page is released, and the child
\* Lookup found is the page to latch next
ReleaseParent(t) ==
  /\ CrabRunning(t, "release")
  /\ t_latch' = Unlatched1(Hold(bt[t].page, FALSE))
  /\ CrabGoes(t, [pc |-> "latch",
                  page |-> InternalLookup(pages[bt[t].page], bt[t].key),
                  held |-> bt[t].held \ {Hold(bt[t].page, FALSE)}])
  /\ UNCHANGED <<root_page_id_, pages, treeGhostVars, int_mtx, bt_calls,
                 bt_inserted, bt_called, bt_undefined>>
  /\ UNCHANGED notCrab

\* GetLeafPage, lines 549 and 553, not read_only: the page stays latched
ToChild(t) ==
  /\ CrabRunning(t, "child")
  /\ CrabGoes(t, [pc |-> "latch",
                  page |-> InternalLookup(pages[bt[t].page], bt[t].key)])
  /\ UNCHANGED <<treeStateVars, treeGhostVars, int_mtx, bt_calls, bt_inserted,
                 bt_called, bt_undefined>>
  /\ UNCHANGED notCrab

\* GetValue, lines 49-54: Lookup in the leaf, ReleasePage, return
GetValueAtLatchedLeaf(t) ==
  /\ CrabRunning(t, "leaf")
  /\ bt[t].op = "GetValue"
  /\ t_latch' = Unlatched1(Hold(bt[t].page, FALSE))
  /\ bt' = [bt EXCEPT ![t] =
              [IdleCrab EXCEPT
                 !.op = "GetValue", !.key = bt[t].key, !.known = bt[t].known,
                 !.value = LeafLookup(pages[bt[t].page], bt[t].key).value,
                 !.ret = LeafLookup(pages[bt[t].page], bt[t].key).ok,
                 !.held = bt[t].held \ {Hold(bt[t].page, FALSE)},
                 !.pc = "returned"]]
  /\ UNCHANGED <<root_page_id_, pages, treeGhostVars, int_mtx, bt_calls,
                 bt_inserted, bt_called, bt_undefined>>
  /\ UNCHANGED notCrab

\* InsertIntoLeaf, lines 128-135, the leaf read-latched: a key that is there
\* ends the call; otherwise UpgradeToExclusive, b_plus_tree.h line 128, gives
\* the read latch up
InsertAtReadLeaf(t) ==
  /\ CrabRunning(t, "leaf")
  /\ bt[t].op = "Insert"
  /\ bt[t].read_only
  /\ t_latch' = Unlatched1(Hold(bt[t].page, FALSE))
  /\ IF LeafLookup(pages[bt[t].page], bt[t].key).ok
     THEN CrabReturns(t, bt[t].held \ {Hold(bt[t].page, FALSE)}, FALSE)
     ELSE /\ CrabGoes(t, [pc |-> "upgrade",
                          held |-> bt[t].held \ {Hold(bt[t].page, FALSE)}])
          /\ UNCHANGED <<int_mtx, bt_inserted>>
  /\ UNCHANGED <<root_page_id_, pages, treeGhostVars, bt_calls, bt_called,
                 bt_undefined>>
  /\ UNCHANGED notCrab

\* UpgradeToExclusive, b_plus_tree.h lines 129-130: GetPage asks for the write
\* latch and puts the page into the page set
Upgrade(t) ==
  /\ CrabRunning(t, "upgrade")
  /\ MayLatch(bt[t].page, FALSE)
  /\ t_latch' = Latched(bt[t].page, FALSE)
  /\ CrabGoes(t, [pc |-> "upgraded",
                  held |-> bt[t].held \cup {Hold(bt[t].page, TRUE)},
                  page_set |-> Append(bt[t].page_set, bt[t].page)])
  /\ UNCHANGED <<root_page_id_, pages, treeGhostVars, int_mtx, bt_calls,
                 bt_inserted, bt_called, bt_undefined>>
  /\ UNCHANGED notCrab

\* InsertIntoLeaf, lines 136-146, the leaf write-latched: the pair is stored
\* if the leaf stays below its maximum size; otherwise ReleasePage gives the
\* latch up, the page stays in the page set, and GetLeafPage starts again
\* from the root asking for write latches
InsertUpgradedLeaf(t) ==
  LET leaf == bt[t].page
  IN  /\ CrabRunning(t, "upgraded")
      /\ IF pages[leaf].size + 1 < pages[leaf].max_size
         THEN /\ pages' = [pages EXCEPT ![leaf] =
                             LeafInsert(@, bt[t].key, bt[t].value)]
              /\ CrabGoes(t, [pc |-> "release_all"])
              /\ UNCHANGED t_latch
         ELSE /\ t_latch' = Unlatched1(Hold(leaf, TRUE))
              /\ CrabGoes(t, [pc |-> "root", read_only |-> FALSE,
                              crabbing |-> FALSE,
                              held |-> bt[t].held \ {Hold(leaf, TRUE)}])
              /\ UNCHANGED pages
      /\ UNCHANGED <<root_page_id_, treeGhostVars, int_mtx, bt_calls,
                     bt_inserted, bt_called, bt_undefined>>
      /\ UNCHANGED notCrab

\* InsertIntoLeaf, lines 147-159, the leaf and its path write-latched: the
\* pair is stored, the leaf split and the new leaf put into the parent
SplitLatchedLeaf(t) ==
  LET leaf == bt[t].page
      T == PushUp(SplitLeaf(InsertAt(Tree, leaf, bt[t].key, bt[t].value),
                            leaf, NewPageId(Tree)),
                  leaf, NewPageId(Tree))
  IN  /\ CrabRunning(t, "leaf")
      /\ bt[t].op = "Insert"
      /\ ~bt[t].read_only
      /\ root_page_id_' = T.root
      /\ pages' = T.pages
      /\ t_latch' = T.latch
      /\ CrabGoes(t, [pc |-> "release_all"])
      /\ UNCHANGED <<treeGhostVars, int_mtx, bt_calls, bt_inserted, bt_called,
                     bt_undefined>>
      /\ UNCHANGED notCrab

\* ReleaseAllTxnPages, b_plus_tree.h lines 135-143: WUnlatch of the page at
\* the front of the page set, whoever holds its latch
ReleaseFront(t) ==
  LET page_id == Head(bt[t].page_set)
  IN  /\ CrabRunning(t, "release_all")
      /\ bt[t].page_set # << >>
      /\ t_latch' = Unlatched1(Hold(page_id, TRUE))
      /\ CrabGoes(t, [page_set |-> Tail(bt[t].page_set),
                      held |-> bt[t].held \ {Hold(page_id, TRUE)}])
      /\ UNCHANGED <<root_page_id_, pages, treeGhostVars, int_mtx, bt_calls,
                     bt_inserted, bt_called, bt_undefined>>
      /\ UNCHANGED notCrab

\* InsertIntoLeaf, lines 143 and 161, and Insert, line 74: the page set is
\* empty, the call returns true
InsertReturnsTrue(t) ==
  /\ CrabRunning(t, "release_all")
  /\ bt[t].page_set = << >>
  /\ CrabReturns(t, bt[t].held, TRUE)
  /\ UNCHANGED <<treeStateVars, treeGhostVars, bt_calls, bt_called,
                 bt_undefined>>
  /\ UNCHANGED notCrab

\* the tree with nothing in it
EmptyTree ==
  [root |-> INVALID_PAGE_ID, pages |-> << >>, latch |-> << >>,
   page_set |-> << >>, deleted |-> {}, hung |-> FALSE]

\* the tree after Insert(1, 1), ..., Insert(n, 1), one call after the other
RECURSIVE TreeOfFirst(_)
TreeOfFirst(n) ==
  IF n = 0 THEN EmptyTree ELSE InsertInTree(TreeOfFirst(n - 1), n, 1).T

\* no thread has called the tree, on which Insert(k, 1) has returned true for
\* the keys 1..n
InitCrabThreads(n) ==
  /\ bt = [t \in TreeThreads |-> IdleCrab]
  /\ int_mtx = Free
  /\ bt_calls = 0
  /\ bt_inserted = [k \in CrabKeys |-> IF k <= n THEN 1 ELSE NoValue]
  /\ bt_called = [k \in CrabKeys |-> IF k <= n THEN 1 ELSE 0]
  /\ bt_undefined = FALSE

\* the threads are about to call a tree that holds the keys 1..n
InitCrabWith(n) ==
  /\ root_page_id_ = TreeOfFirst(n).root
  /\ pages = TreeOfFirst(n).pages
  /\ t_latch = TreeOfFirst(n).latch
  /\ t_ret = [op |-> "none", call |-> "none", key |-> 0, ok |-> FALSE,
              value |-> NoValue, present |-> FALSE, scan |-> << >>]
  /\ t_model = [k \in TKeys |-> NoValue]
  /\ t_ops = 0
  /\ t_hung = FALSE
  /\ InitCrabThreads(n)

InitCrab == \E n \in 0..MaxLoaded : InitCrabWith(n)

NextCrab ==
  \/ \E t \in TreeThreads : \E k \in CrabKeys : \E v \in TValues :
       CrabInsert(t, k, v)
  \/ \E t \in TreeThreads : \E k \in CrabKeys : CrabGetValue(t, k)
  \/ \E t \in TreeThreads : TakeIntMtx(t)
  \/ \E t \in TreeThreads : InitNewRoot(t)
  \/ \E t \in TreeThreads : ReadRoot(t)
  \/ \E t \in TreeThreads : LatchPage(t)
  \/ \E t \in TreeThreads : ReleaseParent(t)
  \/ \E t \in TreeThreads : ToChild(t)
  \/ \E t \in TreeThreads : GetValueAtLatchedLeaf(t)
  \/ \E t \in TreeThreads : InsertAtReadLeaf(t)
  \/ \E t \in TreeThreads : Upgrade(t)
  \/ \E t \in TreeThreads : InsertUpgradedLeaf(t)
  \/ \E t \in TreeThreads : SplitLatchedLeaf(t)
  \/ \E t \in TreeThreads : ReleaseFront(t)
  \/ \E t \in TreeThreads : InsertReturnsTrue(t)
  \/ \E t \in TreeThreads : CrabDone(t)

(***************************************************************************)
(* SPECIFICATIONS                                                          *)
(***************************************************************************)
\* the subsystems a specification does not exercise stay as constructed
IdleLock == InitLock /\ strict_2PL_ = FALSE
IdleHash == InitHash /\ bucketSize = 1
IdleTree == InitTree
IdleLog == InitLog
IdleRec == InitRecovery
IdleConc == InitConc
IdleBt == InitCrabThreads(0)

Init == InitLock /\ IdleHash /\ IdleTree /\ IdleLog /\ IdleRec /\ IdleConc /\ IdleBt

SpecLock == Init /\ [][NextLock]_vars

InitSpecHash == IdleLock /\ InitHash /\ IdleTree /\ IdleLog /\ IdleRec /\ IdleConc /\ IdleBt

SpecHash == InitSpecHash /\ [][NextHash]_vars

InitSpecTree == IdleLock /\ IdleHash /\ InitTree /\ IdleLog /\ IdleRec /\ IdleConc /\ IdleBt

SpecTree == InitSpecTree /\ [][NextTree]_vars

InitSpecLog == IdleLock /\ IdleHash /\ IdleTree /\ InitLog /\ IdleRec /\ IdleConc /\ IdleBt

SpecLog == InitSpecLog /\ [][NextLog]_vars

InitSpecLogBusy == IdleLock /\ IdleHash /\ IdleTree /\ InitLogBusy /\ IdleRec /\ IdleConc /\ IdleBt

SpecLogBusy == InitSpecLogBusy /\ [][NextLog]_vars

InitSpecRecovery == IdleLock /\ IdleHash /\ IdleTree /\ IdleLog /\ InitRecovery /\ IdleConc /\ IdleBt

SpecRecovery == InitSpecRecovery /\ [][NextRecovery]_vars

InitSpecRecoveryLoaded ==
  IdleLock /\ IdleHash /\ IdleTree /\ IdleLog /\ IdleConc /\ InitRecoveryLoaded /\ IdleBt

SpecRecoveryLoaded == InitSpecRecoveryLoaded /\ [][NextRecovery]_vars

InitSpecHashConc == IdleLock /\ IdleHash /\ IdleTree /\ IdleLog /\ IdleRec /\ InitConc /\ IdleBt

SpecHashConc == InitSpecHashConc /\ [][NextConc]_vars

InitSpecTreeConc ==
  IdleLock /\ IdleHash /\ IdleLog /\ IdleRec /\ IdleConc /\ InitCrab

SpecTreeConc == InitSpecTreeConc /\ [][NextCrab]_vars


(***************************************************************************)
(* CLAIMS ABOUT THE LOCK MANAGER                                           *)
(***************************************************************************)
\* t holds r: a lock call of t on r returned true and no Unlock(t, r) has
\* returned true since
Holds(t, r) == held[t][r] # "NONE"

\* C1: lock mutual exclusion. Whenever a transaction holds a RID in exclusive
\* mode, no other transaction holds that RID in any mode.
C1_MutualExclusion ==
  \A r \in RIDs : \A t \in Txns :
    held[t][r] = "EXCLUSIVE" => \A u \in Txns \ {t} : ~Holds(u, r)

\* t is blocked in a lock request on r: it is queued on r's entry
QueuedOn(t, r) ==
  /\ r \in DOMAIN lock_map
  /\ \E i \in 1..Len(lock_map[r].lst) : lock_map[r].lst[i].txn_id = t

QueuedAhead(u, t, r) ==
  /\ r \in DOMAIN lock_map
  /\ \E i, j \in 1..Len(lock_map[r].lst) :
       i < j /\ lock_map[r].lst[i].txn_id = u /\ lock_map[r].lst[j].txn_id = t

\* the wait-for graph: t -> u when t is blocked on a RID that u holds (or has
\* just been granted) or on which u is queued ahead of t
WaitsFor(t, u) ==
  /\ t # u
  /\ \E r \in RIDs :
       /\ QueuedOn(t, r)
       /\ \/ Holds(u, r)
          \/ u \in lock_map[r].granted
          \/ QueuedAhead(u, t, r)

RECURSIVE ReachableFrom(_, _)
ReachableFrom(S, n) ==
  IF n = 0 THEN S
  ELSE ReachableFrom(S \cup {u \in Txns : \E t \in S : WaitsFor(t, u)}, n - 1)

OnWaitForCycle(t) ==
  t \in ReachableFrom({u \in Txns : WaitsFor(t, u)}, NumTxns)

\* C2: deadlock freedom by wait-die. No reachable state has a cycle in the
\* wait-for graph.
C2_NoWaitForCycle == \A t \in Txns : ~OnWaitForCycle(t)

\* the table answers every lookup as the map of the calls made so far does
HashAgrees ==
  \A k \in Keys :
    FindIn(Table, k) = [ok |-> h_model[k] # NoValue, value |-> h_model[k]]

\* C3: extendible hash lookup-after-insert. In a single-threaded run of Insert
\* of distinct keys and Remove, every call returns and Find(k) is true with the
\* inserted value for each key inserted and not removed, false for every other.
C3_LookupAfterInsert == h_distinct => (~h_hung /\ HashAgrees)

(***************************************************************************)
(* CLAIMS ABOUT THE B+ TREE                                                *)
(***************************************************************************)
\* C4: the B+ tree behaves as an ordered map. In a single-threaded run of
\* Insert and Remove on an initially empty tree, a GetValue(k) that returns
\* finds k exactly when k was inserted and not removed since, and then with the
\* value of the last successful Insert of k.
C4_OrderedMap ==
  t_ret.op = "GetValue" =>
    /\ t_ret.ok = t_ret.present
    /\ t_ret.ok => t_ret.value = t_model[t_ret.key]

\* C8: duplicate insert. In a single-threaded run an Insert(k, v) that returns
\* has returned false exactly when k was present in the tree, so a key that was
\* removed is inserted again with true.
C8_InsertFalseIffPresent ==
  t_ret.op = "Insert" => (t_ret.ok = ~t_ret.present)

\* the pages of the subtree of page pid, to the depth n
RECURSIVE Subtree(_, _)
Subtree(pid, n) ==
  IF n = 0 \/ pages[pid].page_type # "INTERNAL_PAGE" THEN {pid}
  ELSE {pid} \cup UNION {Subtree(At(pages[pid], i).second, n - 1) :
                           i \in 0..(pages[pid].size - 1)}

\* the keys stored in the leaves of the subtree of page pid
KeysUnder(pid) ==
  UNION {{At(pages[p], i).first : i \in 0..(pages[p].size - 1)} :
           p \in {q \in Subtree(pid, MaxTreeOps) :
                    pages[q].page_type = "LEAF_PAGE"}}

KeysIncrease(page) ==
  \A i \in (IF page.page_type = "LEAF_PAGE" THEN 0 ELSE 1)..(page.size - 2) :
    At(page, i).first < At(page, i + 1).first

SizeInBounds(pid) ==
  IF pid # root_page_id_
  THEN GetMinSize(pages[pid]) <= pages[pid].size
       /\ pages[pid].size <= pages[pid].max_size
  ELSE IF pages[pid].page_type = "INTERNAL_PAGE" THEN pages[pid].size >= 2
  ELSE pages[pid].size = 0 => \A k \in TKeys : t_model[k] = NoValue

SeparatorsBound(page) ==
  page.page_type = "INTERNAL_PAGE" =>
    \A i \in 0..(page.size - 1) :
      \A k \in KeysUnder(At(page, i).second) :
        /\ i >= 1 => k >= At(page, i).first
        /\ i + 1 < page.size => k < At(page, i + 1).first

\* C9: structural invariants of the B+ tree. After every completed Insert or
\* Remove of a single-threaded run the keys of every node increase strictly,
\* every node but the root has between its minimum and its maximum size, an
\* internal root has two children or more, a root leaf is empty only in an empty
\* tree, and every key under a child lies between the separators around it.
C9_StructuralInvariants ==
  (~t_hung /\ root_page_id_ # INVALID_PAGE_ID) =>
    \A pid \in Subtree(root_page_id_, MaxTreeOps) :
      /\ KeysIncrease(pages[pid])
      /\ SizeInBounds(pid)
      /\ SeparatorsBound(pages[pid])

\* the pairs of the map in the order of their keys
RECURSIVE PairsFrom(_)
PairsFrom(k) ==
  IF k > MaxTreeKey THEN << >>
  ELSE IF t_model[k] = NoValue THEN PairsFrom(k + 1)
  ELSE <<Pair(k, t_model[k])>> \o PairsFrom(k + 1)

\* what a full scan of the tree as it is visits
FullScan == ScanFrom(BeginIn(Tree).T, BeginIn(Tree).it, << >>)

\* C10: leaf chain and full scan. After a single-threaded run of Insert and
\* Remove that leaves a tree that is not empty, the iterator of Begin() advanced
\* until isEnd() visits every stored pair once, in the strictly increasing order
\* of the keys.
C10_FullScan ==
  (~t_hung /\ root_page_id_ # INVALID_PAGE_ID /\ ~BeginIn(Tree).T.hung) =>
    FullScan = PairsFrom(1)


(***************************************************************************)
(* CLAIMS ABOUT THE LOG MANAGER                                            *)
(***************************************************************************)
\* C6: whenever Commit or Abort returns, persistent_lsn_ is at least the LSN
\* of the COMMIT or ABORT record the call appended: the flush thread has
\* written that record, not only an earlier buffer.
C6_FlushBeforeAck ==
  l_acked.acked => l_acked.persistent >= l_acked.lsn

\* the records of the log file, HEADER_SIZE words each
FileRecords ==
  [i \in 1..(Len(log_file) \div HEADER_SIZE) |->
     SubSeq(log_file, HEADER_SIZE * (i - 1) + 1, HEADER_SIZE * i)]

\* the records AppendLogRecord copied into a buffer
Copied == l_appended \cup {Serialize(l_rec[t]) : t \in {u \in LogThreads : l_pc[u] = "bump"}}

\* no thread is inside AppendLogRecord, no buffer holds words to write
LogQuiescent ==
  /\ \A t \in LogThreads : l_pc[t] \in {"idle", "active", "enter_wait", "waiting", "notified"}
  /\ \A t \in LogThreads : l_pc[t] \in {"enter_wait", "waiting", "notified"} => l_ret[t] = "return"
  /\ f_pc = "sleep"
  /\ log_buffer_size_ = 0
  /\ flush_buffer_size = 0

\* C7: the log file is a sequence of whole records, each one a record some
\* thread appended, no record twice, their LSNs strictly increasing; and once
\* the buffers are drained every appended record is in the file.
C7_LogOrder ==
  ~log_undefined =>
    /\ Len(log_file) % HEADER_SIZE = 0
    /\ \A i \in DOMAIN FileRecords : FileRecords[i] \in Copied
    /\ \A i, j \in DOMAIN FileRecords : i < j => FileRecords[i][2] < FileRecords[j][2]
    /\ LogQuiescent => \A r \in l_appended : \E i \in DOMAIN FileRecords : FileRecords[i] = r

(***************************************************************************)
(* CLAIMS ABOUT THE CALLS OF THE LOCK MANAGER                              *)
(***************************************************************************)
\* the transactions an entry names: granted, or queued
QueueIds(wl) == {wl.lst[i].txn_id : i \in DOMAIN wl.lst}

EntryIds(wl) == wl.granted \cup QueueIds(wl)

\* a granted transaction holds r exclusively, or was granted its exclusive
\* request and has not resumed yet
ExclusivelyHeld(r) ==
  \E h \in lock_map[r].granted :
    \/ held[h][r] = "EXCLUSIVE"
    \/ lk_pc[h] \in {"wait_exclusive", "upgrade_wait"} /\ lk_rid[h] = r

ExclusivelyAwaited(r) ==
  \E i \in DOMAIN lock_map[r].lst : lock_map[r].lst[i].target_state = "EXCLUSIVE"

\* t is younger than some transaction the entry of r names
YoungerThanSome(t, r) == \E o \in EntryIds(lock_map[r]) : t > o

\* the call of t returned false, t is ABORTED, and the lock table is as before
Died(t) ==
  /\ lk_ret'.ret = "false"
  /\ lk_ret'.txn = t
  /\ txn_state'[t] = "ABORTED"
  /\ lock_map' = lock_map
  /\ lk_pc'[t] = "idle"

DeathRule ==
  \A t \in Txns, r \in RIDs :
    /\ (/\ LockShared(t, r)
        /\ txn_state[t] = "GROWING"
        /\ r \in DOMAIN lock_map
        /\ ExclusivelyHeld(r) \/ ExclusivelyAwaited(r)
        /\ YoungerThanSome(t, r)) => Died(t)
    /\ (/\ LockExclusive(t, r)
        /\ txn_state[t] = "GROWING"
        /\ r \in DOMAIN lock_map
        /\ YoungerThanSome(t, r)) => Died(t)

\* C11: a LockShared against an exclusively held or awaited RID, and a
\* LockExclusive against a RID with an entry, by a GROWING transaction younger
\* than some holder or waiter of the entry, returns false, leaves the
\* requester ABORTED and neither enqueues nor blocks it.
C11_WaitDieDeath == [][DeathRule]_vars

\* the mode in which h holds r by the entry of r: the mode its call returned
\* true for, or the mode of its granted request while it has not resumed
ModeOf(h, r) ==
  IF held[h][r] # "NONE" THEN held[h][r]
  ELSE IF lk_rid[h] = r /\ lk_pc[h] = "wait_shared" THEN "SHARED"
  ELSE IF lk_rid[h] = r /\ lk_pc[h] \in {"wait_exclusive", "upgrade_wait"} THEN "EXCLUSIVE"
  ELSE "NONE"

HoldersOf(r) == {h \in lock_map[r].granted : ModeOf(h, r) # "NONE"}

\* a request of t for r in mode m conflicts with the holders, all younger
OlderAndConflicting(t, r, m) ==
  /\ txn_state[t] = "GROWING"
  /\ r \in DOMAIN lock_map
  /\ HoldersOf(r) # {}
  /\ \A h \in HoldersOf(r) : t < h
  /\ m = "EXCLUSIVE" \/ \E h \in HoldersOf(r) : ModeOf(h, r) = "EXCLUSIVE"

Blocked(t) ==
  /\ lk_ret'.ret = "blocked"
  /\ lk_ret'.txn = t
  /\ txn_state'[t] = "GROWING"

WaitRule ==
  \A t \in Txns, r \in RIDs :
    /\ (LockShared(t, r) /\ OlderAndConflicting(t, r, "SHARED")) => Blocked(t)
    /\ (LockExclusive(t, r) /\ OlderAndConflicting(t, r, "EXCLUSIVE")) => Blocked(t)
    /\ (Granted(t) /\ lk_rid[t] = r) =>
         (lk_ret'.ret = "true" /\ txn_state'[t] = txn_state[t] /\ held'[t][r] # "NONE")

\* C12: a GROWING transaction whose request conflicts with the holders of a
\* RID, all of them younger, blocks and stays GROWING; the request that is
\* granted returns true and leaves the state of the requester as it was.
C12_WaitAndGrant == [][WaitRule]_vars

\* the step is the first step of a lock call: lk_ret' names the call
LockCallStarts ==
  /\ lk_calls' # lk_calls
  /\ lk_ret'.op \in {"LockShared", "LockExclusive", "LockUpgrade"}

Refused(t) == lk_ret'.ret = "false" /\ lock_map' = lock_map

TwoPhaseRule ==
  LockCallStarts =>
    /\ txn_state[lk_ret'.txn] = "SHRINKING" =>
         (Refused(lk_ret'.txn) /\ txn_state'[lk_ret'.txn] = "ABORTED")
    /\ txn_state[lk_ret'.txn] \in {"COMMITTED", "ABORTED"} =>
         (Refused(lk_ret'.txn) /\ txn_state'[lk_ret'.txn] = txn_state[lk_ret'.txn])

\* C13: LockShared, LockExclusive and LockUpgrade by a SHRINKING transaction
\* return false, leave it ABORTED and the lock table unchanged; by a COMMITTED
\* or ABORTED transaction they return false and change neither its state nor
\* the lock table.
C13_TwoPhaseRule == [][TwoPhaseRule]_vars

\* a lock call by a transaction that had unlocked a RID was refused and left it
\* ABORTED with the table empty, and a committed transaction's was refused
C13_Witness ==
  /\ lk_ret.op \in {"LockShared", "LockExclusive", "LockUpgrade"}
  /\ lk_ret.ret = "false"
  /\ txn_state[lk_ret.txn] = "COMMITTED"
  /\ \E t \in Txns : txn_state[t] = "ABORTED" /\ lk_pc[t] = "idle" /\ ~strict_2PL_

\* the step is an Unlock call, a LockShared call, the return of a Commit
UnlockCalled == lk_calls' # lk_calls /\ lk_ret'.op = "Unlock"

LockSharedCalled == lk_calls' # lk_calls /\ lk_ret'.op = "LockShared"

CommitReturned == lk_ret'.op = "Commit" /\ lk_ret'.ret = "returned" /\ lk_ret' # lk_ret

StrictRule ==
  strict_2PL_ =>
    /\ (/\ UnlockCalled
        /\ txn_state[lk_ret'.txn] = "GROWING"
        /\ held[lk_ret'.txn][lk_ret'.rid] # "NONE") =>
         /\ lk_ret'.ret = "false"
         /\ lock_map' = lock_map
         /\ held' = held
         /\ txn_state' = txn_state
    /\ (/\ LockSharedCalled
        /\ txn_state[lk_ret'.txn] = "GROWING"
        /\ lk_ret'.rid \notin DOMAIN lock_map) =>
         (lk_ret'.ret = "true" /\ txn_state' = txn_state)
    /\ CommitReturned =>
         /\ txn_state'[lk_ret'.txn] = "COMMITTED"
         /\ \A r \in DOMAIN lock_map' : lk_ret'.txn \notin lock_map'[r].granted

\* C14: in strict mode Unlock of a held RID by a GROWING transaction returns
\* false and changes neither the lock table nor the transaction, whose
\* LockShared on a free RID still returns true; when Commit returns the
\* transaction is COMMITTED and in the granted set of no RID.
C14_Strict2PL == [][StrictRule]_vars

\* strict mode: a transaction that held locks has committed, and the Unlock of
\* a GROWING transaction on a RID it holds was refused
C14_Witness ==
  /\ strict_2PL_
  /\ lk_ret.op = "Unlock" /\ lk_ret.ret = "false"
  /\ txn_state[lk_ret.txn] = "GROWING"
  /\ held[lk_ret.txn][lk_ret.rid] # "NONE"
  /\ \E t \in Txns :
       /\ txn_state[t] = "COMMITTED" /\ lk_pc[t] = "done"
       /\ shared_lock_set[t] \cup exclusive_lock_set[t] # {}

\* C15: no assert of LockUpgrade fails, in strict and in non-strict mode, and
\* when LockUpgrade has returned true its transaction is the only granted
\* holder of the RID, holds it exclusively and is GROWING.
C15_UpgradeResult ==
  /\ ~assert_failed
  /\ (lk_ret.op = "LockUpgrade" /\ lk_ret.ret = "true") =>
       /\ lk_ret.rid \in DOMAIN lock_map
       /\ lock_map[lk_ret.rid].granted = {lk_ret.txn}
       /\ held[lk_ret.txn][lk_ret.rid] = "EXCLUSIVE"
       /\ txn_state[lk_ret.txn] = "GROWING"

\* nobody holds r exclusively and nobody waits for it exclusively
SharedOnly(r) ==
  /\ \A h \in Txns : ModeOf(h, r) # "EXCLUSIVE"
  /\ r \in DOMAIN lock_map => ~ExclusivelyAwaited(r)

SharedRule ==
  (/\ LockSharedCalled
   /\ txn_state[lk_ret'.txn] = "GROWING"
   /\ SharedOnly(lk_ret'.rid)) =>
    /\ lk_ret'.ret = "true"
    /\ txn_state' = txn_state
    /\ held'[lk_ret'.txn][lk_ret'.rid] = "SHARED"
    /\ lk_ret'.txn \in lock_map'[lk_ret'.rid].granted

\* C16: LockShared by a GROWING transaction on a RID that nobody holds or
\* awaits exclusively returns true at once, whatever the ages, and leaves the
\* requester GROWING and a holder of the RID.
C16_SharedCompatible == [][SharedRule]_vars

\* all transactions hold one RID shared at once, the last call granted to a
\* transaction older than a holder
C16_Witness ==
  \E r \in RIDs :
    /\ r \in DOMAIN lock_map
    /\ \A t \in Txns : held[t][r] = "SHARED" /\ t \in lock_map[r].granted
    /\ lk_ret.op = "LockShared" /\ lk_ret.ret = "true" /\ lk_ret.rid = r
    /\ lk_ret.txn = 0

(***************************************************************************)
(* CLAIMS ABOUT THE CALLS OF THE HASH TABLE                                *)
(***************************************************************************)
\* the entries with key k, over all buckets: <<address, index>>
EntriesFor(k) ==
  {p \in (1..Len(heap)) \X (1..(MaxHashOps + 1)) :
     /\ p[2] <= Len(heap[p[1]].entries)
     /\ heap[p[1]].entries[p[2]][1] = k}

\* C17: hash re-insert and remove. The table keeps at most one entry for a
\* key; Find(k) returns the value of the last Insert(k, v), also when k was
\* present before, and returns false once Remove(k) has removed k.
C17_ReinsertAndRemove ==
  ~h_hung =>
    \A k \in Keys :
      /\ Cardinality(EntriesFor(k)) <= 1
      /\ FindIn(Table, k).ok => FindIn(Table, k).value = h_model[k]
      /\ h_model[k] = NoValue => ~FindIn(Table, k).ok

\* every bucket's local depth is at most the global depth, and the directory
\* has 2^globalDepth slots
DepthInvariant ==
  /\ \A a \in 1..Len(heap) : heap[a].depth <= globalDepth
  /\ numBuckets = Pow2(globalDepth)
  /\ DOMAIN buckets = 0..(Pow2(globalDepth) - 1)

\* Remove changes neither the global depth nor the directory nor a local depth
RemoveKeepsDepths ==
  (h_ops' # h_ops /\ h_ret'.op = "Remove") =>
    /\ globalDepth' = globalDepth
    /\ numBuckets' = numBuckets
    /\ buckets' = buckets
    /\ Len(heap') = Len(heap)
    /\ \A a \in 1..Len(heap) : heap'[a].depth = heap[a].depth

\* C18: hash depth invariant. After any Insert and Remove calls every
\* bucket's local depth is at most the global depth and the directory has
\* exactly 2^globalDepth slots; Remove changes none of them.
C18_DepthInvariant == [](DepthInvariant) /\ [][RemoveKeepsDepths]_vars

\* the directory has doubled twice, a bucket is still at depth 1 and another
\* at the global depth, and the last call, a Remove, removed an entry
C18_Witness ==
  /\ globalDepth = 3
  /\ \E a \in 1..Len(heap) : heap[a].depth = 1
  /\ \E a \in 1..Len(heap) : heap[a].depth = 3
  /\ h_ret.op = "Remove" /\ h_ret.ok

(***************************************************************************)
(* The log manager with its threads scheduled fairly                       *)
(***************************************************************************)
\* a thread inside a call goes on; the flush thread runs
LogStep(t) ==
  \/ WaitEnter(t) \/ WaitReturn(t) \/ AssignLsn(t) \/ ReadOffset(t)
  \/ CopyRecord(t) \/ BumpSize(t)

FlushStep == SwapPointers \/ SwapSize \/ SwapReset \/ WriteLog

FairLog ==
  /\ \A t \in LogThreads : WF_vars(LogStep(t))
  /\ WF_vars(FlushStep)

SpecLogFair == InitSpecLog /\ [][NextLog]_vars /\ FairLog

\* t is inside WaitTillFlushHappens
InWait(t) == l_pc[t] \in {"enter_wait", "waiting", "notified"}

\* C19: commit liveness. With the flush thread running, a thread inside
\* WaitTillFlushHappens, called by Commit, by Abort or by an AppendLogRecord
\* that found the buffer full, eventually returns from it.
C19_CommitReturns ==
  \A t \in LogThreads :
    (InWait(t) /\ ~log_undefined) ~> (~InWait(t) \/ log_undefined)


(***************************************************************************)
(* CLAIMS ABOUT THE CALLS OF THE B+ TREE: TERMINATION                      *)
(***************************************************************************)
\* no page latch is held
NoLatchHeld(latch) == \A p \in DOMAIN latch : latch[p] = Unlatched

\* a step that is Remove(k) of a key in the tree, called with no latch held
RemoveOfPresentKey ==
  /\ t_ops' # t_ops
  /\ t_ret'.call = "Remove"
  /\ t_ret'.present
  /\ NoLatchHeld(t_latch)

RemoveCompletes ==
  RemoveOfPresentKey => (~t_hung' /\ NoLatchHeld(t_latch'))

\* C20: Remove completes. In a single-threaded run every Remove(k) of a key
\* that is in the tree returns and leaves no page latch held, also when the
\* leaf underflows and has to be merged with a sibling.
C20_RemoveCompletes == [][RemoveCompletes]_vars


(***************************************************************************)
(* CLAIMS ABOUT LockUpgrade, Unlock AND THE LOCK TABLE                     *)
(***************************************************************************)
\* the transactions granted r in the lock table lm
GrantedIn(lm, r) == IF r \in DOMAIN lm THEN lm[r].granted ELSE {}

\* t is inside LockUpgrade and this step is after its checks: the step that
\* gives up the shared hold, or a later step before the exclusive grant
InUpgradeWindow(t) ==
  \/ lk_pc[t] = "upgrade_unlock" /\ lk_pc'[t] # "upgrade_unlock"
  \/ lk_pc[t] \in {"upgrade_lock", "upgrade_wait"}

UpgradeWindowRule ==
  \A t \in Txns :
    InUpgradeWindow(t) =>
      /\ GrantedIn(lock_map', lk_rid[t]) \ {t} \subseteq GrantedIn(lock_map, lk_rid[t])
      /\ promise' \ {t} \subseteq promise
      /\ txn_state'[t] = "ABORTED" => txn_state[t] = "ABORTED"

\* C23: LockUpgrade is atomic. From the step in which LockUpgrade gives up the
\* caller's shared hold until the caller is granted the exclusive lock, no
\* other transaction is granted the RID, no waiter is handed the entry, and
\* the upgrader is not aborted.
C23_UpgradeAtomic == [][UpgradeWindowRule]_vars


\* a step that is the first step of the call op of transaction t on r
CallStarts(op, t, r) ==
  /\ lk_calls' # lk_calls
  /\ lk_ret'.op = op /\ lk_ret'.txn = t /\ lk_ret'.rid = r

UpgradeWithoutHoldRule ==
  \A t \in Txns, r \in RIDs :
    (/\ CallStarts("LockUpgrade", t, r)
     /\ txn_state[t] = "GROWING"
     /\ t \notin GrantedIn(lock_map, r))
    => /\ lk_ret'.ret = "false"
       /\ txn_state'[t] = "ABORTED"
       /\ lock_map' = lock_map

\* C24: upgrade without a shared hold. LockUpgrade by a GROWING transaction
\* that is not in the granted set of the RID returns false, sets the
\* transaction's state to ABORTED and leaves the lock table unchanged.
C24_UpgradeWithoutHold == [][UpgradeWithoutHoldRule]_vars


\* the waiters queued on r in the lock table lm
QueueOf(lm, r) == IF r \in DOMAIN lm THEN lm[r].lst ELSE << >>

\* a lock request that arrives while requests are queued on its RID is not
\* granted by its first step
NoOvertaking ==
  \A t \in Txns, r \in RIDs :
    (/\ \/ CallStarts("LockShared", t, r)
        \/ CallStarts("LockExclusive", t, r)
     /\ QueueOf(lock_map, r) # << >>)
    => lk_ret'.ret # "true"

\* a waiter whose promise is set in a step was the head of a queue
HeadIsServed ==
  \A t \in promise' \ promise :
    \E r \in RIDs : /\ QueueOf(lock_map, r) # << >>
                    /\ Head(QueueOf(lock_map, r)).txn_id = t

\* C25: FIFO grants. The waiters queued on one RID are granted in the order
\* in which they were enqueued, and a request that arrives while earlier
\* requests are still queued on that RID is not granted ahead of them.
C25_FifoGrants == [][NoOvertaking /\ HeadIsServed]_vars


\* no entry with an empty granted set and an empty queue
NoEmptyEntry ==
  \A r \in DOMAIN lock_map :
    lock_map[r].granted # {} \/ lock_map[r].lst # << >>

\* a RID that a transaction holds has an entry that names the holder
HoldersHaveEntry ==
  \A t \in Txns, r \in RIDs :
    held[t][r] # "NONE" => t \in GrantedIn(lock_map, r)

\* C26: lock-table entry lifecycle. An entry for a RID exists exactly while
\* the RID has a granted holder or a waiter: no entry is empty of both, and
\* every holder of a RID is in the granted set of an entry for it, also after
\* another shared holder has unlocked.
C26_EntryLifecycle == NoEmptyEntry /\ HoldersHaveEntry


FailedUnlockRule ==
  \A t \in Txns, r \in RIDs :
    (CallStarts("Unlock", t, r) /\ t \notin GrantedIn(lock_map, r))
    => /\ lk_ret'.ret = "false"
       /\ lock_map' = lock_map
       /\ txn_state' = txn_state

\* C27: a failed Unlock has no effect. Unlock(txn, rid) by a transaction that
\* is not in the granted set of rid returns false and leaves the lock table
\* and the transaction's state unchanged: a GROWING transaction moves to
\* SHRINKING only on an Unlock that releases a lock.
C27_FailedUnlockNoEffect == [][FailedUnlockRule]_vars


(***************************************************************************)
(* CLAIMS ABOUT THE LOG BUFFER                                             *)
(***************************************************************************)
\* t is about to serialise its record (lines 131-154)
Serialising(t) == l_pc[t] = "copy"

\* t found the buffer full, waited in WaitTillFlushHappens and was woken
WokenAppender(t) == l_ret[t] = "assign"

\* C30: log buffer bound. An appender that found the buffer full and was
\* woken serialises its record inside the active buffer: the offset it
\* writes at plus the size of the record is at most LOG_BUFFER_SIZE.
C30_BufferBound ==
  \A t \in LogThreads :
    (Serialising(t) /\ WokenAppender(t)) =>
      l_offset[t] + l_rec[t].size_ <= LOG_BUFFER_SIZE


(***************************************************************************)
(* CLAIMS ABOUT THE DIRECTORY OF THE HASH TABLE                            *)
(***************************************************************************)
\* the keys of the bucket at address a
KeysOf(a) == {heap[a].entries[i][1] : i \in 1..Len(heap[a].entries)}

\* directory slot i agrees with the bucket it references: in the low
\* local-depth bits every key of the bucket equals the slot index
SlotConsistent(i) ==
  \A k \in KeysOf(buckets[i]) :
    HashKey(k) % Pow2(heap[buckets[i]].depth) = i % Pow2(heap[buckets[i]].depth)

\* C28: hash directory consistency. After any single-threaded sequence of
\* Insert and Remove that returned, every directory slot i references a bucket
\* all of whose keys k satisfy hash(k) & mask(local depth) = i & mask(local
\* depth): after a split every slot that referenced the split bucket
\* references the half that matches the slot index.
C28_DirectoryConsistent ==
  ~h_hung => \A i \in DOMAIN buckets : SlotConsistent(i)


(***************************************************************************)
(* CLAIMS ABOUT Begin(key)                                                 *)
(***************************************************************************)
\* the keys the calls made so far left in the tree, from k on
StoredFrom(k) == {j \in TKeys : j >= k /\ t_model[j] # NoValue}

\* b, what Begin(k) returned, is where the claim says: on the pair with the
\* smallest key from k on, or at end when there is none, and never at an
\* index beyond the pairs of its leaf
PositionedAt(b, k) ==
  /\ ~isEnd(b.it) => b.it.cur_idx < b.T.pages[b.it.cur_page_id].size
  /\ IF StoredFrom(k) = {} THEN isEnd(b.it)
     ELSE /\ ~isEnd(b.it)
          /\ Deref(b.T, b.it).first
               = CHOOSE j \in StoredFrom(k) : \A i \in StoredFrom(k) : j <= i

\* C22: position of Begin(k). For a tree that is not empty and any key k, the
\* iterator Begin(k) returns is on the pair with the smallest key >= k stored
\* in the tree, or at end when there is no such key; it is never at an index
\* >= the size of its leaf.
C22_BeginPosition ==
  (~t_hung /\ root_page_id_ # INVALID_PAGE_ID) =>
    \A k \in TKeys :
      ~BeginAtKey(Tree, k).T.hung => PositionedAt(BeginAtKey(Tree, k), k)


\* Redo has returned: Undo is running or is over
RedoReturned == rc_pc \in {"undo", "undo_records", "recovered"} /\ Recovering

\* the LSNs of the records of transaction t in the log written before the crash
LsnsOf(t) == {i \in 1..Len(rc_records) : rc_records[i].txn_id_ = t}

\* t has a COMMIT or an ABORT record in the log
Ended(t) ==
  \E i \in LsnsOf(t) : rc_records[i].log_record_type_ \in {"COMMIT", "ABORT"}

\* the transactions with a record in the log and no COMMIT or ABORT record,
\* each with the LSN of its last record
LastRecordLsn(t) == CHOOSE l \in 0..Len(rc_records) :
                (l + 1) \in LsnsOf(t) /\ \A i \in LsnsOf(t) : i <= l + 1

UnfinishedTxns == {t \in RecTxns : LsnsOf(t) # {} /\ ~Ended(t)}

\* the log holds BEGIN and INSERT(r, t) of one transaction and nothing else
OnlyBeginAndInsert ==
  /\ Len(rc_records) = 2
  /\ rc_records[1].log_record_type_ = "BEGIN"
  /\ rc_records[2].log_record_type_ = "INSERT"

InsertedTupleInPlace ==
  LET rec == rc_records[2]
      rid == rec.insert_rid_
  IN  /\ rec.txn_id_ \in DOMAIN active_txn_
      /\ rc_disk[rid.page_id].slots[rid.slot_num] =
           [tuple |-> rec.insert_tuple_, deleted |-> FALSE]

\* C21: once Redo has returned, active_txn_ holds exactly the transactions
\* that have a record in the log and no COMMIT or ABORT record, each with the
\* LSN of its last record; after a log of BEGIN and INSERT(r, t) alone the
\* transaction is active and tuple t is at r.
C21_RedoActiveTxns ==
  RedoReturned =>
    /\ DOMAIN active_txn_ = UnfinishedTxns
    /\ \A t \in UnfinishedTxns : active_txn_[t] = LastRecordLsn(t)
    /\ OnlyBeginAndInsert => InsertedTupleInPlace


\* t holds the latch of every bucket whose entry vector it reads or changes
AccessUnderLatch(t) ==
  \A a \in Modifying(t) \cup Scanning(t) : b_latch[a] = t

\* C29: with several threads in Find, Insert and Remove, no thread reads or
\* changes the entry vector of a bucket while another thread changes it, no
\* thread reads the directory array while it is doubled or rewired, and a
\* thread scans a bucket or moves its entries only while holding the bucket's
\* latch.
C29_HashLatchProtocol ==
  /\ ~Racing
  /\ \A t \in HashThreads : AccessUnderLatch(t)


\* t has a COMMIT record in the log
Committed(t) ==
  \E i \in LsnsOf(t) : rc_records[i].log_record_type_ = "COMMIT"

DataTypes == {"INSERT", "UPDATE", "MARKDELETE", "ROLLBACKDELETE", "APPLYDELETE"}

\* the pages after the data operations of the committed transactions among
\* the first n records of the log, applied in LSN order to empty pages
RECURSIVE CommittedPages(_)
CommittedPages(n) ==
  IF n = 0 THEN [p \in RecPages |-> EmptyTablePage]
  ELSE LET rec == rc_records[n]
           before == CommittedPages(n - 1)
       IN  IF rec.log_record_type_ \in DataTypes /\ Committed(rec.txn_id_)
           THEN [before EXCEPT ![RidOf(rec).page_id] = Apply(@, rec)]
           ELSE before

\* C5: after a crash at any point, once Redo and then Undo have run, the
\* tuples of the table pages are those left by the operations of the
\* transactions with a COMMIT record in the log, applied in LSN order, and by
\* no other operation.
C5_RecoveryCorrect ==
  (rc_pc = "recovered" /\ Recovering) =>
    \A p \in RecPages : rc_disk[p].slots = CommittedPages(Len(rc_records))[p].slots


\* Redo has just returned and Undo has not yet touched lsn_mapping_
RedoJustReturned ==
  rc_pc = "undo" /\ u_todo = DOMAIN active_txn_ /\ rc_undone = << >> /\ Recovering

\* the offset in the log file of the record with index i
RECURSIVE RecordOffset(_)
RecordOffset(i) ==
  IF i = 1 THEN 0 ELSE RecordOffset(i - 1) + rc_records[i - 1].size_

\* C31: for a log of any length Redo returns having worked on every record
\* once, in the order of the file, and lsn_mapping_ gives for the LSN of
\* every record the offset of the record in the file.
C31_RedoWholeLog ==
  RedoJustReturned =>
    /\ rc_redone = [i \in 1..Len(rc_records) |-> rc_records[i].lsn_]
    /\ DOMAIN lsn_mapping_ = {rc_records[i].lsn_ : i \in 1..Len(rc_records)}
    /\ \A i \in 1..Len(rc_records) :
         lsn_mapping_[rc_records[i].lsn_] = RecordOffset(i)


\* the record Redo is about to work on
NextRedoRecord == DeserializeLogRecord(rc_buffer, log_size_read, logRecord)

\* Redo is about to work on a data record, fetches the page of the record's
\* RID and finds there an LSN not below the record's
RedoFindsApplied ==
  /\ rc_pc = "redo_records" /\ Recovering
  /\ NextRedoRecord.ok /\ NextRedoRecord.over = "none"
  /\ LET rec == NextRedoRecord.rec
     IN  /\ rec.log_record_type_ \in DataTypes
         /\ IsTableRID(RidOf(rec))
         /\ rec.insert_rid_ = RidOf(rec)
         /\ rc_disk[RidOf(rec).page_id].lsn >= rec.lsn_

\* the step leaves the pages as they are and goes on to the record behind
SkipsRecord ==
  /\ rc_disk' = rc_disk
  /\ ~rc_hung'
  /\ log_size_read' = log_size_read + NextRedoRecord.rec.size_

\* C32: when the page of a data record already has an LSN not below the
\* record's, Redo leaves the page unchanged and continues with the next
\* record of the log.
C32_RedoSkipsApplied == [][RedoFindsApplied => SkipsRecord]_vars


\* Redo is about to work on a data record
RedoAtDataRecord ==
  /\ rc_pc = "redo_records" /\ Recovering
  /\ NextRedoRecord.ok /\ NextRedoRecord.over = "none"
  /\ NextRedoRecord.rec.log_record_type_ \in DataTypes

\* the RID whose page Redo fetches and whose slot it changes (line 73)
RedoRid == NextRedoRecord.rec.insert_rid_

\* C33: for every data record Redo works on, the page it fetches and the slot
\* it changes are those of the RID stored in that record, never those of an
\* earlier record or of a default RID.
C33_RedoOwnRid == RedoAtDataRecord => RedoRid = RidOf(NextRedoRecord.rec)


\* the record Undo is about to work on: the one at lsn_mapping_[lsn] of the
\* file, read into a new LogRecord
NextUndoRecord ==
  DeserializeLogRecord(
    ReadLog(rc_file, LOG_BUFFER_SIZE, MappingWith(lsn_mapping_, u_lsn)[u_lsn]),
    0, EmptyLogRecord)

\* Undo is about to work on an INSERT, MARKDELETE or UPDATE record of a
\* transaction Redo left in active_txn_
UndoAtDataRecord ==
  /\ rc_pc = "undo_records" /\ Recovering
  /\ HasLogs(rc_file, MappingWith(lsn_mapping_, u_lsn)[u_lsn])
  /\ NextUndoRecord.ok /\ NextUndoRecord.over = "none"
  /\ NextUndoRecord.rec.lsn_ = u_lsn
  /\ NextUndoRecord.rec.log_record_type_ \in {"INSERT", "MARKDELETE", "UPDATE"}

\* the page of the record's RID after the inverse of the record
Inverse(page, rec) ==
  CASE rec.log_record_type_ = "INSERT" -> ApplyDelete(page, RidOf(rec))
    [] rec.log_record_type_ = "MARKDELETE" -> RollbackDelete(page, RidOf(rec))
    [] rec.log_record_type_ = "UPDATE" ->
         UpdateTuple(page, RidOf(rec), rc_records[rec.lsn_ + 1].old_tuple_)

\* the step applies the inverse of the record to the page of its RID and
\* goes on along the chain of prev_lsn_
UndoesRecord ==
  LET rec == NextUndoRecord.rec
      p == RidOf(rec).page_id
  IN  /\ ~rc_hung' /\ ~rc_undefined'
      /\ rc_disk' = [rc_disk EXCEPT ![p] = Inverse(@, rec)]
      /\ rc_undone' = Append(rc_undone, rec.lsn_)
      /\ u_lsn' = IF rec.prev_lsn_ = INVALID_LSN THEN NoLsn ELSE rec.prev_lsn_

\* C34: for every transaction Redo left in active_txn_, Undo works on each
\* record of the chain of prev_lsn_ once, from the last LSN back to the
\* record without a prev_lsn_, and applies the inverse of each INSERT,
\* MARKDELETE and UPDATE at the record's RID, whatever the LSN of the page.
C34_UndoLosers == [][UndoAtDataRecord => UndoesRecord]_vars


\* the keys of a leaf page
PairKeys(page) == {At(page, i).first : i \in 0..(page.size - 1)}

LeafIds == {p \in 1..Len(pages) : pages[p].page_type = "LEAF_PAGE"}

\* the step is a Remove of a key of leaf n that returned, after which n has
\* as many pairs as before and its sibling s one less: n borrowed from s
LeafBorrows(n, s) ==
  /\ t_ops' = t_ops + 1 /\ t_ret'.op = "Remove"
  /\ Len(pages') = Len(pages)
  /\ n # s
  /\ pages'[n].page_type = "LEAF_PAGE" /\ pages'[s].page_type = "LEAF_PAGE"
  /\ pages[n].parent_page_id # INVALID_PAGE_ID
  /\ pages[n].parent_page_id = pages[s].parent_page_id
  /\ t_ret'.key \in PairKeys(pages[n])
  /\ pages'[n].size = pages[n].size
  /\ pages'[s].size = pages[s].size - 1

\* of n and s the one further right in the parent, after the step
RightHand(n, s) ==
  LET parent == pages'[pages'[n].parent_page_id]
  IN  IF ValueIndex(parent, n) > ValueIndex(parent, s) THEN n ELSE s

\* the parent's key for the right-hand node, after the step
Separator(n, s) ==
  LET parent == pages'[pages'[n].parent_page_id]
  IN  At(parent, ValueIndex(parent, RightHand(n, s))).first

BorrowKeepsSeparator(n, s) ==
  /\ PairKeys(pages'[n]) \cup PairKeys(pages'[s])
       = (PairKeys(pages[n]) \cup PairKeys(pages[s])) \ {t_ret'.key}
  /\ Separator(n, s) = At(pages'[RightHand(n, s)], 0).first
  /\ \A k \in PairKeys(pages'[n]) \cup PairKeys(pages'[s]) : GetValueIn(Tree', k).ok

\* C35: after a Remove that borrows one pair from the left or the right
\* sibling, one pair has crossed the boundary, the parent's separator between
\* the two siblings is the smallest key under the right-hand one, and
\* GetValue finds every key of both siblings.
C35_RedistributionSeparator ==
  [][\A n, s \in LeafIds : LeafBorrows(n, s) => BorrowKeepsSeparator(n, s)]_vars


\* the step is for (it = Begin(); !it.isEnd(); ++it), called with every latch
\* free
BeginCalled ==
  /\ NoLatchHeld(t_latch)
  /\ t_ops' = t_ops + 1
  /\ t_ret'.call = "Scan"

\* an Insert or a Remove issued next completes
NextWriteCompletes(T) ==
  /\ \A k \in TKeys : ~RemoveInTree(T, k).hung
  /\ \A k \in TKeys : \A v \in TValues : ~InsertInTree(T, k, v).T.hung

\* C40: after Begin() has returned and between the ++ calls no latch is held
\* on the root, an internal node or a leaf, so an Insert or Remove issued
\* afterwards gets its exclusive latch and completes.
C40_IteratorHoldsNoLatch ==
  [][BeginCalled => (NoLatchHeld(t_latch') /\ NextWriteCompletes(Tree'))]_vars


(***************************************************************************)
(* CLAIMS ABOUT THE B+ TREE CALLED BY SEVERAL THREADS                      *)
(***************************************************************************)
\* t has latched the root on its descent with read latches and has not yet
\* finished at the leaf, the upgrade of the leaf latch included
Crabbing(t) ==
  /\ bt[t].crabbing
  /\ bt[t].pc \in {"release", "latch", "leaf", "upgrade", "upgraded"}

\* C37: crabbing order. From latching the root until GetValue or Insert has
\* finished at the leaf, the upgrade of the leaf latch from shared to
\* exclusive included, the thread holds a latch on a page of its path at
\* every moment: the child is latched before the parent is released.
C37_CrabbingOrder ==
  \A t \in TreeThreads : Crabbing(t) => bt[t].held # {}


\* GetValue(k) has returned to t; when it was called, the one Insert of k ever
\* called had returned true
GetValueOfInsertedKey(t) ==
  /\ bt[t].pc = "returned"
  /\ bt[t].op = "GetValue"
  /\ bt[t].known # NoValue
  /\ bt_called[bt[t].key] = 1

\* GetValue of t has latched a frame that is not yet a tree page and descends
\* into it
ReadsUninitialised(t) == bt[t].op = "GetValue" /\ bt[t].pc = "undefined"

\* C36: with several threads running Insert of distinct keys and GetValue, a
\* GetValue(k) that starts after Insert(k, v) has returned true returns v,
\* also while other inserts split leaves, split the root or create the first
\* root; a reader never descends into a page that is not yet initialised.
C36_ReadersSeeInserted ==
  /\ \A t \in TreeThreads : ~ReadsUninitialised(t)
  /\ \A t \in TreeThreads :
       GetValueOfInsertedKey(t) => (bt[t].ret /\ bt[t].value = bt[t].known)


\* both threads have called Insert with the same key, which was not in the
\* tree and which no other call has inserted, and both calls have returned
BothInsertsReturned ==
  \E t, u \in TreeThreads :
    /\ t # u
    /\ bt[t].pc = "returned" /\ bt[u].pc = "returned"
    /\ bt[t].op = "Insert" /\ bt[u].op = "Insert"
    /\ bt[t].key = bt[u].key
    /\ bt_called[bt[t].key] = 2

\* the pairs with key k on the leaves of the tree
EntriesOf(k) ==
  {<<p, i>> \in (1..Len(pages)) \X (0..(ArrayCap - 1)) :
     /\ pages[p].page_type = "LEAF_PAGE"
     /\ i < pages[p].size
     /\ At(pages[p], i).first = k}

\* one call returned true, the other false, and the tree holds one pair for
\* the key, with the value of the call that returned true
OneInsertWins ==
  \A t, u \in TreeThreads :
    (/\ t # u
     /\ bt[t].pc = "returned" /\ bt[u].pc = "returned"
     /\ bt[t].op = "Insert" /\ bt[u].op = "Insert"
     /\ bt[t].key = bt[u].key)
    => /\ bt[t].ret # bt[u].ret
       /\ Cardinality(EntriesOf(bt[t].key)) = 1
       /\ bt[t].ret =>
            \A e \in EntriesOf(bt[t].key) :
              At(pages[e[1]], e[2]).second = bt[t].value

\* C39: when two threads concurrently call Insert with the same key, absent
\* beforehand, exactly one call returns true and the other false, and the
\* tree then holds one entry for the key, with the value of the call that
\* returned true.
C39_DuplicateInsert == BothInsertsReturned => OneInsertWins


\* the threads that believe they hold the exclusive latch of page p
WriteHolders(p) == {t \in TreeThreads : Hold(p, TRUE) \in bt[t].held}

\* this step is a WUnlatch of ReleaseAllTxnPages by thread t
ReleasesFront(t) ==
  /\ bt[t].pc = "release_all"
  /\ bt[t].page_set # << >>
  /\ bt'[t].page_set = Tail(bt[t].page_set)

\* the page t unlatches is one whose exclusive latch t holds
ReleasesOwnLatch(t) == t \in WriteHolders(Head(bt[t].page_set))

\* C38: a page's exclusive latch is held by at most one tree operation at a
\* time, and ReleaseAllTxnPages unlatches only pages whose latch the operation
\* still holds: never a page it has already released, such as the leaf
\* released before the restart of Insert with write latches, and so never a
\* latch that another operation holds.
C38_ExclusiveLatches ==
  [][/\ \A p \in 1..Len(pages) : Cardinality(WriteHolders(p)) <= 1
     /\ \A t \in TreeThreads : ReleasesFront(t) => ReleasesOwnLatch(t)]_vars

====
